---------------------------- MODULE Spec2Model ----------------------------
(***************************************************************************)
(* TubeScribe: transcript extraction and chunked summarization.            *)
(*                                                                         *)
(* The module models server/routes.ts (and the alternate route files kept  *)
(* in the repository): the pure helpers as operators, the two request      *)
(* handlers as state machines whose steps are the code between two awaits. *)
(*                                                                         *)
(* Text that chunkText works on is kept run-length encoded: a string is a  *)
(* sequence of runs [c |-> character, n |-> repetitions], adjacent runs    *)
(* having different characters.  The string operations below are the       *)
(* JavaScript ones computed on that representation, so that texts longer   *)
(* than the default budget of 12000 * 4 characters are ordinary values.    *)
(***************************************************************************)
EXTENDS Integers, Sequences, FiniteSets, TLC

VARIABLES
    pc,          \* position of the running function or handler
    text,        \* chunkText: argument text
    maxTokens,   \* chunkText: argument maxTokens
    chunks,      \* chunkText: returned array; /api/summarize: const chunks
    body,        \* req.body
    env,         \* /api/summarize: process.env at the time of the request
    summaries,   \* /api/summarize: let summaries
    finalSummary,\* /api/summarize: let finalSummary
    calls,       \* the calls sent to outside services, in order
    replies,     \* what the settled calls gave, in the order of calls
    res,         \* the responses sent, in order
    impl,        \* /api/transcript: the route file that serves the request
    videoId,     \* /api/transcript: let videoId
    track,       \* /api/transcript: const englishTrack
    transcriptData, \* /api/transcript: let transcriptData
    seconds,     \* formatTimestamp: argument seconds
    stamp,       \* formatTimestamp: returned string
    parked,      \* concurrent requests: the handler state of each request
                 \* that is not running, between two of its steps
    turn         \* concurrent requests: the request that is running

chunkVars == <<text, maxTokens, chunks>>

sumVars == <<body, env, summaries, finalSummary, calls, replies, res>>

trVars == <<impl, videoId, track, transcriptData>>

fmtVars == <<seconds, stamp>>

concVars == <<parked, turn>>

vars == <<pc, text, maxTokens, chunks, body, env, summaries, finalSummary,
          calls, replies, res, impl, videoId, track, transcriptData,
          seconds, stamp, parked, turn>>

\* value of a variable the running specification does not use
Idle == "idle"

(***************************************************************************)
(* Bounds of the model.                                                    *)
(***************************************************************************)
\* number of pieces an input text of chunkText is put together from
MaxPieces == 5
\* small values of maxTokens tried besides the default
MaxSmallTokens == 2
\* number of sentences of the longest transcript sent to /api/summarize
MaxSentences == 2
\* number of bullet points of the longest summary the LLM service returns
MaxBullets == 1

(***************************************************************************)
(* Strings.                                                                *)
(***************************************************************************)
Run(c, n) == [c |-> c, n |-> n]

\* ""
EmptyStr == <<>>

\* c repeated n times
Repeat(c, n) == IF n = 0 THEN EmptyStr ELSE <<Run(c, n)>>

\* s + t
Concat(s, t) ==
    IF s = <<>> THEN t
    ELSE IF t = <<>> THEN s
    ELSE IF s[Len(s)].c = t[1].c
         THEN SubSeq(s, 1, Len(s) - 1)
                  \o <<Run(t[1].c, s[Len(s)].n + t[1].n)>>
                  \o Tail(t)
         ELSE s \o t

RECURSIVE ConcatAll(_)
\* ss.join(''), put together by halves
ConcatAll(ss) ==
    IF ss = <<>> THEN EmptyStr
    ELSE IF Len(ss) = 1 THEN ss[1]
    ELSE LET half == Len(ss) \div 2
         IN  Concat(ConcatAll(SubSeq(ss, 1, half)),
                    ConcatAll(SubSeq(ss, half + 1, Len(ss))))

RECURSIVE StrLen(_)
\* s.length: the sum of the runs, added up by halves
StrLen(s) ==
    IF s = <<>> THEN 0
    ELSE IF Len(s) = 1 THEN s[1].n
    ELSE LET half == Len(s) \div 2
         IN  StrLen(SubSeq(s, 1, half)) + StrLen(SubSeq(s, half + 1, Len(s)))

\* \s of the regular expressions and of trim()
IsWhitespace(c) == c \in {" ", "\n", "\t"}

\* [.!?] of the sentence separator
IsTerminator(c) == c \in {".", "!", "?"}

RECURSIVE TrimStart(_)
TrimStart(s) ==
    IF s # <<>> /\ IsWhitespace(s[1].c) THEN TrimStart(Tail(s)) ELSE s

RECURSIVE TrimEnd(_)
TrimEnd(s) ==
    IF s # <<>> /\ IsWhitespace(s[Len(s)].c)
    THEN TrimEnd(SubSeq(s, 1, Len(s) - 1))
    ELSE s

\* s.trim()
Trim(s) == TrimEnd(TrimStart(s))

RECURSIVE SplitFrom(_, _, _, _)
\* the fragments of s from run i on; cur is the fragment being read and out
\* the fragments closed so far.  A maximal run of terminators is one separator.
SplitFrom(s, i, cur, out) ==
    IF i > Len(s) THEN Append(out, cur)
    ELSE IF IsTerminator(s[i].c)
         THEN IF i > 1 /\ IsTerminator(s[i - 1].c)
              THEN SplitFrom(s, i + 1, cur, out)
              ELSE SplitFrom(s, i + 1, EmptyStr, Append(out, cur))
         ELSE SplitFrom(s, i + 1, Concat(cur, <<s[i]>>), out)

\* s.split(/[.!?]+/)
SplitSentences(s) == SplitFrom(s, 1, EmptyStr, <<>>)

\* s => s.trim().length > 0
NonBlank(s) == StrLen(Trim(s)) > 0

\* ". "
DotSpace == <<Run(".", 1), Run(" ", 1)>>

\* the string whose characters are cs, in order
Lit(cs) == ConcatAll([i \in DOMAIN cs |-> Repeat(cs[i], 1)])

RECURSIVE Take(_, _)
\* s.slice(0, k)
Take(s, k) ==
    IF k <= 0 \/ s = <<>> THEN EmptyStr
    ELSE IF s[1].n >= k THEN <<Run(s[1].c, k)>>
    ELSE <<s[1]>> \o Take(Tail(s), k - s[1].n)

RECURSIVE Drop(_, _)
\* s.slice(k)
Drop(s, k) ==
    IF k <= 0 \/ s = <<>> THEN s
    ELSE IF s[1].n > k THEN <<Run(s[1].c, s[1].n - k)>> \o Tail(s)
    ELSE Drop(Tail(s), k - s[1].n)

\* s.startsWith(p)
StartsWith(s, p) == Take(s, StrLen(p)) = p

\* s.includes(p)
Includes(s, p) ==
    \E i \in 0 .. StrLen(s) : StartsWith(Drop(s, i), p)

RECURSIVE ReplaceAll(_, _, _)
\* s.replace(/pat/g, rep) for a pattern that is a non-empty literal
ReplaceAll(s, pat, rep) ==
    IF StrLen(s) < StrLen(pat) THEN s
    ELSE IF StartsWith(s, pat)
    THEN Concat(rep, ReplaceAll(Drop(s, StrLen(pat)), pat, rep))
    ELSE Concat(Take(s, 1), ReplaceAll(Drop(s, 1), pat, rep))

RECURSIVE IndexOfChar(_, _)
\* s.indexOf(c) for a character c, StrLen(s) standing for -1
IndexOfChar(s, c) ==
    IF s = <<>> \/ s[1].c = c THEN 0
    ELSE s[1].n + IndexOfChar(Tail(s), c)

RECURSIVE StripTags(_)
\* s.replace(/<[^>]*>/g, '')
StripTags(s) ==
    IF s = <<>> THEN EmptyStr
    ELSE LET rest == Drop(s, 1)
             close == IndexOfChar(rest, ">")
         IN  IF s[1].c = "<" /\ close < StrLen(rest)
             THEN StripTags(Drop(rest, close + 1))
             ELSE Concat(Take(s, 1), StripTags(rest))

RECURSIVE JoinWithSpace(_)
\* ss.join(' '), put together by halves
JoinWithSpace(ss) ==
    IF ss = <<>> THEN EmptyStr
    ELSE IF Len(ss) = 1 THEN ss[1]
    ELSE LET half == Len(ss) \div 2
         IN  Concat(Concat(JoinWithSpace(SubSeq(ss, 1, half)), Repeat(" ", 1)),
                    JoinWithSpace(SubSeq(ss, half + 1, Len(ss))))

(***************************************************************************)
(* chunkText.                                                              *)
(***************************************************************************)
\* the default value of chunkText's maxTokens
DefaultMaxTokens == 12000

\* text.split(/[.!?]+/).filter(s => s.trim().length > 0)
Sentences(t) == SelectSeq(SplitSentences(t), NonBlank)

\* the loop body with the flush guard `currentChunk.length > 0` left out
ChunkStepNoGuard(st, sentence, maxChars) ==
    LET testChunk == Concat(Concat(st.currentChunk, sentence), DotSpace)
    IN  IF StrLen(testChunk) > maxChars
        THEN [currentChunk |-> Concat(sentence, DotSpace),
              chunks |-> Append(st.chunks, Trim(st.currentChunk))]
        ELSE [currentChunk |-> testChunk, chunks |-> st.chunks]

\* the loop body testing the buffer instead of the buffer with the sentence
ChunkStepLateFlush(st, sentence, maxChars) ==
    LET testChunk == Concat(Concat(st.currentChunk, sentence), DotSpace)
    IN  IF StrLen(st.currentChunk) > maxChars /\ StrLen(st.currentChunk) > 0
        THEN [currentChunk |-> Concat(sentence, DotSpace),
              chunks |-> Append(st.chunks, Trim(st.currentChunk))]
        ELSE [currentChunk |-> testChunk, chunks |-> st.chunks]

\* the loop body restarting the buffer empty after a flush
ChunkStepDropSentence(st, sentence, maxChars) ==
    LET testChunk == Concat(Concat(st.currentChunk, sentence), DotSpace)
    IN  IF StrLen(testChunk) > maxChars /\ StrLen(st.currentChunk) > 0
        THEN [currentChunk |-> EmptyStr,
              chunks |-> Append(st.chunks, Trim(st.currentChunk))]
        ELSE [currentChunk |-> testChunk, chunks |-> st.chunks]

\* the loop body re-appending a blank only
ChunkStepNoDot(st, sentence, maxChars) ==
    LET testChunk == Concat(Concat(st.currentChunk, sentence), Repeat(" ", 1))
    IN  IF StrLen(testChunk) > maxChars /\ StrLen(st.currentChunk) > 0
        THEN [currentChunk |-> Concat(sentence, Repeat(" ", 1)),
              chunks |-> Append(st.chunks, Trim(st.currentChunk))]
        ELSE [currentChunk |-> testChunk, chunks |-> st.chunks]

\* the body of `for (const sentence of sentences)`: st holds currentChunk
\* and chunks
ChunkStep(st, sentence, maxChars) ==
    LET testChunk == Concat(Concat(st.currentChunk, sentence), DotSpace)
    IN  IF StrLen(testChunk) > maxChars /\ StrLen(st.currentChunk) > 0
        THEN [currentChunk |-> Concat(sentence, DotSpace),
              chunks |-> Append(st.chunks, Trim(st.currentChunk))]
        ELSE [currentChunk |-> testChunk, chunks |-> st.chunks]

RECURSIVE ChunkLoop(_, _, _, _)
\* the for loop over sentences, from index i on
ChunkLoop(sentences, i, st, maxChars) ==
    IF i > Len(sentences) THEN st
    ELSE ChunkLoop(sentences, i + 1, ChunkStep(st, sentences[i], maxChars),
                   maxChars)

\* the flush of the remaining buffer after the loop
ChunkFlush(st) ==
    IF StrLen(Trim(st.currentChunk)) > 0
    THEN Append(st.chunks, Trim(st.currentChunk))
    ELSE st.chunks

\* chunkText without the return of a short text as it is
chunkTextSplitAlways(t, mt) ==
    LET maxChars == mt * 4
    IN  ChunkFlush(ChunkLoop(Sentences(t), 1,
            [currentChunk |-> EmptyStr, chunks |-> <<>>], maxChars))

chunkText(t, mt) ==
    LET maxChars == mt * 4
    IN  IF StrLen(t) <= maxChars
        THEN <<t>>
        ELSE ChunkFlush(ChunkLoop(Sentences(t), 1,
                 [currentChunk |-> EmptyStr, chunks |-> <<>>], maxChars))

(***************************************************************************)
(* chunkText applied to bounded inputs.                                    *)
(***************************************************************************)
\* characters of the input texts: two letters, a blank, two terminators
Chars == {"a", "b", " ", ".", "?"}

\* values of maxTokens
TokenBudgets == (1 .. MaxSmallTokens) \cup {DefaultMaxTokens}

\* an input text is put together from single characters and from a word of
\* exactly maxChars letters
Pieces(maxChars) ==
    {Repeat(c, 1) : c \in Chars} \cup {Repeat("a", maxChars)}

InputTexts(maxChars) ==
    {ConcatAll(ps) :
        ps \in UNION {[1 .. n -> Pieces(maxChars)] : n \in 0 .. MaxPieces}}

ChunkInit ==
    /\ pc = "call"
    /\ maxTokens \in TokenBudgets
    /\ text \in InputTexts(maxTokens * 4)
    /\ chunks = <<>>
    /\ body = Idle /\ env = Idle /\ summaries = Idle /\ finalSummary = Idle
    /\ calls = Idle /\ replies = Idle /\ res = Idle
    /\ impl = Idle /\ videoId = Idle /\ track = Idle /\ transcriptData = Idle
    /\ seconds = Idle /\ stamp = Idle
    /\ parked = Idle /\ turn = Idle

\* chunks = chunkText(text, maxTokens)
ChunkCall ==
    /\ pc = "call"
    /\ chunks' = chunkText(text, maxTokens)
    /\ pc' = "returned"
    /\ UNCHANGED <<text, maxTokens>>
    /\ UNCHANGED sumVars
    /\ UNCHANGED trVars
    /\ UNCHANGED fmtVars
    /\ UNCHANGED concVars

ChunkNext == ChunkCall

SpecChunk == ChunkInit /\ [][ChunkNext]_vars

(***************************************************************************)
(* JSON text and the summaries the LLM service returns.                    *)
(*                                                                         *)
(* Both calls ask for response_format json_object: the content of a        *)
(* completion is missing or empty, the text of a JSON object, or text that *)
(* does not parse (a cut-off object).  An object carries tldr (a string)   *)
(* and bulletPoints (an array of strings), each possibly absent.           *)
(***************************************************************************)
\* {}
EmptyObj == <<>>

Has(obj, key) == key \in DOMAIN obj

\* JSON.stringify(value)
JSONstringify(value) == [valid |-> TRUE, value |-> value]

\* a text JSON.parse throws on
Unparseable == [valid |-> FALSE, value |-> EmptyObj]

\* JSON.parse(text): the value, or a thrown SyntaxError
JSONparse(jsonText) ==
    IF jsonText.valid
    THEN [threw |-> FALSE, value |-> jsonText.value]
    ELSE [threw |-> TRUE, value |-> EmptyObj]

Tldrs == {"Alpha.", "Beta."}

\* the bullet list of n points
BulletsOf(n) == [i \in 1 .. n |-> IF i % 2 = 1 THEN "p1" ELSE "p2"]

BulletLists == {BulletsOf(n) : n \in 0 .. MaxBullets}

SummaryObjects ==
    {EmptyObj}
        \cup {[tldr |-> t] : t \in Tldrs}
        \cup {[bulletPoints |-> b] : b \in BulletLists}
        \cup {[tldr |-> t, bulletPoints |-> b] : t \in Tldrs, b \in BulletLists}

\* what `await openai.chat.completions.create(...)` does: it throws (the
\* message naming 'OpenAI' or not), or resolves with a completion whose
\* message content is null/empty or a text
LLMOutcomes ==
    {[kind |-> "throws", mentionsOpenAI |-> m, content |-> Unparseable] :
        m \in BOOLEAN}
        \cup {[kind |-> "null", mentionsOpenAI |-> FALSE,
               content |-> Unparseable]}
        \cup {[kind |-> "text", mentionsOpenAI |-> FALSE, content |-> c] :
                c \in {Unparseable} \cup {JSONstringify(o) : o \in SummaryObjects}}

\* response.choices[0].message.content || '{}'
ContentOrEmptyObject(outcome) ==
    IF outcome.kind = "null" THEN JSONstringify(EmptyObj) ELSE outcome.content

(***************************************************************************)
(* POST /api/summarize.                                                    *)
(***************************************************************************)
MsgInvalidSummarize == "Invalid request format. Please provide a valid transcript."
MsgNoKey == "OpenAI API key not configured. Please contact the administrator."
MsgAIUnavailable == "AI service temporarily unavailable. Please try again later."
MsgUnexpectedSummary == "An unexpected error occurred while generating the summary."

\* res.status(status).json({ message })
ErrorResponse(status, message) == [status |-> status, message |-> message]

\* a variant that rounds down
estimateTokenCountFloor(length) == length \div 4

\* Math.ceil(text.length / 4), given text.length
estimateTokenCount(length) == (length + 3) \div 4

RECURSIVE JoinBullets(_)
\* bulletPoints.map(point => `* ${point}`).join('\n'); "* " stands for the
\* two characters of the bullet and the blank
JoinBullets(points) ==
    IF points = <<>> THEN ""
    ELSE IF Len(points) = 1 THEN "* " \o points[1]
    ELSE "* " \o points[1] \o "\n" \o JoinBullets(Tail(points))

\* the template literal of summaryText: an absent tldr is rendered as
\* "undefined", absent bulletPoints as ''
summaryTextOf(fs) ==
    "TL;DR: " \o (IF Has(fs, "tldr") THEN fs.tldr ELSE "undefined")
        \o "\n\nKey Points:\n"
        \o (IF Has(fs, "bulletPoints") THEN JoinBullets(fs.bulletPoints) ELSE "")

\* res.json(response) for finalSummary fs
SummaryResponse(fs) ==
    [status |-> 200,
     summary |-> summaryTextOf(fs),
     tldr |-> IF Has(fs, "tldr") THEN fs.tldr ELSE "",
     bulletPoints |-> IF Has(fs, "bulletPoints") THEN fs.bulletPoints ELSE <<>>,
     tokenCount |-> estimateTokenCount(Len(summaryTextOf(fs)))]

\* the outer catch: error.name === 'ZodError', error.message includes 'OpenAI'
CatchSummaryError(isZod, mentionsOpenAI) ==
    IF isZod THEN ErrorResponse(400, MsgInvalidSummarize)
    ELSE IF mentionsOpenAI THEN ErrorResponse(500, MsgAIUnavailable)
    ELSE ErrorResponse(500, MsgUnexpectedSummary)

\* summarizeRequestSchema.parse(req.body) does not throw
SummarizeBodyValid(b) ==
    /\ b.transcript.isString
    /\ StrLen(b.transcript.value) >= 1
    /\ b.style \in {"absent", "detailed", "concise"}

\* a process.env entry: <<>> when unset, <<value>> when set
Unset == <<>>

EnvValues == {Unset, <<"">>, <<"sk-key">>}

\* the truthiness of process.env.NAME
EnvTruthy(v) == v # Unset /\ v[1] # ""

\* the key check taking a variable set to '' for a key
KeyMissingUnsetOnly(e) ==
    e.OPENAI_API_KEY = Unset /\ e.OPENAI_API_KEY_ENV_VAR = Unset

\* !process.env.OPENAI_API_KEY && !process.env.OPENAI_API_KEY_ENV_VAR
KeyMissing(e) ==
    ~EnvTruthy(e.OPENAI_API_KEY) /\ ~EnvTruthy(e.OPENAI_API_KEY_ENV_VAR)

RECURSIVE LongSentences(_)
\* k sentences, each of 48000 letters and closed by "."
LongSentences(k) ==
    IF k = 0 THEN EmptyStr
    ELSE Concat(LongSentences(k - 1),
                Concat(Repeat(IF k % 2 = 1 THEN "a" ELSE "b",
                              DefaultMaxTokens * 4),
                       Repeat(".", 1)))

\* the transcript strings sent: empty, short, long without any sentence,
\* and long with 1 .. MaxSentences sentences
TranscriptStrings ==
    {EmptyStr, Repeat("a", 1) \o Repeat(".", 1),
     Repeat(" ", DefaultMaxTokens * 4 + 1)}
        \cup {LongSentences(k) : k \in 1 .. MaxSentences}

SummarizeBodies ==
    {[transcript |-> [isString |-> FALSE, value |-> EmptyStr], style |-> "detailed"]}
        \cup {[transcript |-> [isString |-> TRUE, value |-> t], style |-> st] :
                t \in TranscriptStrings,
                st \in {"absent", "concise", "verbose"}}

MapCall(i) == [kind |-> "map", index |-> i]

\* the try block of a map call counting a thrown call only
MapCallFailedThrowsOnly(o) == o.kind = "throws"

\* the try block of a map call ends in its catch: the call threw, or
\* JSON.parse threw on the content
MapCallFailed(o) ==
    o.kind = "throws" \/ JSONparse(ContentOrEmptyObject(o)).threw

\* the try block of the reduce call ends in its catch
ReduceCallFailed(o) ==
    o.kind = "throws" \/ JSONparse(ContentOrEmptyObject(o)).threw

\* the shortcut taken for any number of summaries
IsSingleSummaryNever(sums) == FALSE

\* summaries.length === 1
IsSingleSummary(sums) == Len(sums) = 1

\* the fallback reading the last summary
FallbackSummaryLast(sums) == sums[Len(sums)]

\* summaries[0] of the fallback
FallbackSummary(sums) == sums[1]

ReduceCall(n) == [kind |-> "reduce", index |-> n]

SumInit ==
    /\ pc = "request"
    /\ body \in SummarizeBodies
    /\ env \in [{"OPENAI_API_KEY", "OPENAI_API_KEY_ENV_VAR"} -> EnvValues]
    /\ text = Idle /\ maxTokens = Idle
    /\ chunks = <<>>
    /\ summaries = <<>>
    /\ finalSummary = EmptyObj
    /\ calls = <<>>
    /\ replies = <<>>
    /\ res = <<>>
    /\ impl = Idle /\ videoId = Idle /\ track = Idle /\ transcriptData = Idle
    /\ seconds = Idle /\ stamp = Idle
    /\ parked = Idle /\ turn = Idle

\* the handler from its entry to its first await: validation, the key
\* check, chunkText, and the first LLM call (the reduce call when chunkText
\* returned no chunk, the loop body not running and summaries.length being 0)
SumReceive ==
    /\ pc = "request"
    /\ UNCHANGED <<text, maxTokens, body, env, summaries, finalSummary, replies>>
    /\ UNCHANGED trVars
    /\ UNCHANGED fmtVars
    /\ UNCHANGED concVars
    /\ IF ~SummarizeBodyValid(body)
       THEN /\ res' = Append(res, CatchSummaryError(TRUE, FALSE))
            /\ pc' = "done"
            /\ UNCHANGED <<chunks, calls>>
       ELSE IF KeyMissing(env)
       THEN /\ res' = Append(res, ErrorResponse(500, MsgNoKey))
            /\ pc' = "done"
            /\ UNCHANGED <<chunks, calls>>
       ELSE /\ chunks' = chunkText(body.transcript.value, DefaultMaxTokens)
            /\ res' = res
            /\ IF chunks' = <<>>
               THEN calls' = Append(calls, ReduceCall(0)) /\ pc' = "awaitReduce"
               ELSE calls' = Append(calls, MapCall(1)) /\ pc' = "awaitMap"

\* the end of the handler once finalSummary is fs: summaryText, res.json
SendSummary(fs) ==
    /\ finalSummary' = fs
    /\ res' = Append(res, SummaryResponse(fs))
    /\ pc' = "done"

\* the map call of chunk Len(summaries) + 1 settles with outcome o: the rest
\* of the loop body, then the next iteration's call, or after the last chunk
\* the single-summary shortcut or the reduce call
SumMapReturn(o) ==
    /\ pc = "awaitMap"
    /\ UNCHANGED <<text, maxTokens, chunks, body, env>>
    /\ UNCHANGED trVars
    /\ UNCHANGED fmtVars
    /\ UNCHANGED concVars
    /\ replies' = Append(replies, o)
    /\ LET parsed == JSONparse(ContentOrEmptyObject(o))
           after == Append(summaries, JSONstringify(parsed.value))
       IN  IF MapCallFailed(o)
           THEN \* catch (error) { throw new Error(`Failed to ...`) }
                /\ res' = Append(res, CatchSummaryError(FALSE,
                              o.kind = "throws" /\ o.mentionsOpenAI))
                /\ pc' = "done"
                /\ UNCHANGED <<summaries, finalSummary, calls>>
           ELSE /\ summaries' = after
                /\ IF Len(after) < Len(chunks)
                   THEN /\ calls' = Append(calls, MapCall(Len(after) + 1))
                        /\ pc' = "awaitMap"
                        /\ UNCHANGED <<finalSummary, res>>
                   ELSE IF IsSingleSummary(after)
                   THEN /\ SendSummary(JSONparse(after[1]).value)
                        /\ calls' = calls
                   ELSE /\ calls' = Append(calls, ReduceCall(Len(after)))
                        /\ pc' = "awaitReduce"
                        /\ UNCHANGED <<finalSummary, res>>

\* the reduce call settles with outcome o: its result, or in the catch the
\* first summary (JSON.parse(summaries[0]), which throws when there is none)
SumReduceReturn(o) ==
    /\ pc = "awaitReduce"
    /\ UNCHANGED <<text, maxTokens, chunks, body, env, summaries, calls>>
    /\ UNCHANGED trVars
    /\ UNCHANGED fmtVars
    /\ UNCHANGED concVars
    /\ replies' = Append(replies, o)
    /\ LET parsed == JSONparse(ContentOrEmptyObject(o))
       IN  IF ~ReduceCallFailed(o)
           THEN SendSummary(parsed.value)
           ELSE IF summaries = <<>>
           THEN /\ res' = Append(res, CatchSummaryError(FALSE, FALSE))
                /\ pc' = "done"
                /\ UNCHANGED finalSummary
           ELSE SendSummary(JSONparse(FallbackSummary(summaries)).value)

SumNext ==
    \/ SumReceive
    \/ \E o \in LLMOutcomes : SumMapReturn(o)
    \/ \E o \in LLMOutcomes : SumReduceReturn(o)

SpecSummarize == SumInit /\ [][SumNext]_vars

(***************************************************************************)
(* Numbers of the transcript side.                                         *)
(*                                                                         *)
(* A JavaScript number is NaN or a decimal with at most three fraction     *)
(* digits, kept as the integer k of its thousandths: Num(1500) is 1.5.     *)
(***************************************************************************)
Num(k) == [nan |-> FALSE, k |-> k]

NaN == [nan |-> TRUE, k |-> 0]

\* the number of an integer literal
Whole(n) == Num(n * 1000)

\* x * 1000
Times1000(x) == IF x.nan THEN NaN ELSE Num(x.k * 1000)

\* x / 1000, exact on the values the handlers divide (multiples of 1/1000
\* times 1000)
Div1000(x) == IF x.nan THEN NaN ELSE Num(x.k \div 1000)

\* x - y
Minus(x, y) == IF x.nan \/ y.nan THEN NaN ELSE Num(x.k - y.k)

\* Math.floor(x) as an integer, x not NaN
Floor(x) == x.k \div 1000

\* x % 60, the remainder taking the sign of x
Rem60(x) ==
    IF x.k >= 0 THEN Num(x.k % 60000) ELSE Num(0 - ((0 - x.k) % 60000))

\* n.toString().padStart(2, '0')
PadStart2(n) == IF Len(ToString(n)) < 2 THEN "0" \o ToString(n) ELSE ToString(n)

\* a variant that rounds the seconds to the nearest integer
formatTimestampRounded(x) ==
    IF x.nan THEN "NaN:NaN"
    ELSE PadStart2(x.k \div 60000)
            \o ":" \o PadStart2((Rem60(x).k + 500) \div 1000)

\* formatTimestamp(seconds) => "MM:SS"
formatTimestamp(x) ==
    IF x.nan THEN "NaN:NaN"
    ELSE LET minutes == x.k \div 60000
             remainingSeconds == Floor(Rem60(x))
         IN  PadStart2(minutes) \o ":" \o PadStart2(remainingSeconds)

\* formatTimestamp is called with whole minutes 0 .. MaxMinutes, each second
\* of the minute and these thousandths of a second
MaxMinutes == 100

FractionSamples == {0, 1, 700, 999}

SecondsInputs ==
    {Num(m * 60000 + s * 1000 + f) :
        m \in 0 .. MaxMinutes, s \in 0 .. 59, f \in FractionSamples}

FormatInit ==
    /\ pc = "call"
    /\ seconds \in SecondsInputs
    /\ stamp = ""
    /\ text = Idle /\ maxTokens = Idle /\ chunks = Idle
    /\ body = Idle /\ env = Idle /\ summaries = Idle /\ finalSummary = Idle
    /\ calls = Idle /\ replies = Idle /\ res = Idle
    /\ impl = Idle /\ videoId = Idle /\ track = Idle /\ transcriptData = Idle
    /\ parked = Idle /\ turn = Idle

\* stamp = formatTimestamp(seconds)
FormatCall ==
    /\ pc = "call"
    /\ stamp' = formatTimestamp(seconds)
    /\ pc' = "done"
    /\ UNCHANGED <<seconds, chunkVars, sumVars, trVars, concVars>>

FormatNext == FormatCall

SpecFormat == FormatInit /\ [][FormatNext]_vars

(***************************************************************************)
(* The transcript request and its video id.                                *)
(*                                                                         *)
(* A URL text is kept by what new URL(url) makes of it: whether it parses, *)
(* its hostname, its v search parameter (<<>> when searchParams.get('v')   *)
(* is null) and its pathname after the leading "/".                        *)
(***************************************************************************)
Hostnames == {"www.youtube.com", "youtu.be", "notyoutube.com", "example.com"}

\* hostname.includes('youtube.com') || hostname.includes('www.youtube.com')
HostIncludesYoutubeCom(h) == h \in {"www.youtube.com", "notyoutube.com"}

\* hostname.includes('youtu.be')
HostIncludesYoutuBe(h) == h \in {"youtu.be"}

NotAUrl == [parses |-> FALSE, hostname |-> "", v |-> <<>>, pathRest |-> ""]

\* the URLs of the model: every hostname with each v and an empty path, and
\* with each path and no v
Urls ==
    {NotAUrl}
    \cup [parses : {TRUE}, hostname : Hostnames,
          v : {<<>>, <<"">>, <<"vid1">>}, pathRest : {""}]
    \cup [parses : {TRUE}, hostname : Hostnames,
          v : {<<>>}, pathRest : {"", "vid2", "youtu.be"}]

\* url.includes('youtube.com') || url.includes('youtu.be') on the whole text:
\* the name stands in the hostname or in the path
UrlTextIncludesYouTube(u) ==
    \/ HostIncludesYoutubeCom(u.hostname)
    \/ HostIncludesYoutuBe(u.hostname)
    \/ u.pathRest = "youtu.be"

\* req.body: url is a string (value its URL text) or something else
TranscriptBodies ==
    {[url |-> [isString |-> TRUE, value |-> u]] : u \in Urls}
    \cup {[url |-> [isString |-> FALSE, value |-> NotAUrl]]}

\* transcriptRequestSchema.parse(req.body) does not throw
TranscriptBodyValid(b) ==
    /\ b.url.isString
    /\ b.url.value.parses
    /\ UrlTextIncludesYouTube(b.url.value)

\* a variant that reads the path for every host
ExtractVideoIdFromPath(u) ==
    IF ~u.parses THEN [threw |-> TRUE, videoId |-> ""]
    ELSE IF HostIncludesYoutubeCom(u.hostname) \/ HostIncludesYoutuBe(u.hostname)
    THEN [threw |-> u.pathRest = "", videoId |-> u.pathRest]
    ELSE [threw |-> TRUE, videoId |-> ""]

\* the try block that extracts videoId: threw tells that it threw
ExtractVideoId(u) ==
    IF ~u.parses THEN [threw |-> TRUE, videoId |-> ""]
    ELSE IF HostIncludesYoutubeCom(u.hostname)
    THEN LET id == IF u.v = <<>> THEN "" ELSE u.v[1]
         IN  [threw |-> id = "", videoId |-> id]
    ELSE IF HostIncludesYoutuBe(u.hostname)
    THEN [threw |-> u.pathRest = "", videoId |-> u.pathRest]
    ELSE [threw |-> TRUE, videoId |-> ""]

MsgInvalidTranscript == "Invalid request format. Please provide a valid YouTube URL."
MsgInvalidUrl == "Invalid YouTube URL format. Please check the URL and try again."
MsgPageNotOk == "Could not access the YouTube video page. The video may not exist or may be private."
MsgNoTrack == "No suitable caption track found for this video."
MsgCaptionsNotOk == "Failed to fetch caption data from YouTube."
MsgNoSegments == "No transcript segments could be extracted from the caption data."
MsgPrivate == "This video is private or unavailable and cannot be accessed."
MsgAgeRestricted == "This video is age-restricted and cannot be processed."
MsgNoExtract == "Unable to extract transcript from this video. It may not have captions or may be restricted."
MsgUnexpectedTranscript == "An unexpected error occurred while processing your request."

(***************************************************************************)
(* The video page and its caption tracks.                                  *)
(*                                                                         *)
(* A track carries languageCode and baseUrl (<<>> when the property is     *)
(* missing) and name: missing, a string, or an object such as              *)
(* {simpleText: ...}, on which name?.includes(...) is a TypeError.         *)
(***************************************************************************)
VttUrl == "https://www.youtube.com/api/timedtext?lang=en&fmt=vtt"
XmlUrl == "https://www.youtube.com/api/timedtext?lang=en"

\* baseUrl.includes('fmt=vtt')
BaseUrlIncludesFmtVtt(u) == u \in {VttUrl}

\* languageCode?.startsWith('en')
LanguageStartsWithEn(t) ==
    t.languageCode # <<>> /\ t.languageCode[1] \in {"en", "en-US"}

\* name.includes('English') for a name that is a string
NameIncludesEnglish(t) == t.name.text \in {"English (auto-generated)"}

NoName == [type |-> "undefined", text |-> ""]
StringName(str) == [type |-> "string", text |-> str]
ObjectName == [type |-> "object", text |-> ""]

TrackSamples ==
    { [languageCode |-> <<"en">>, name |-> ObjectName, baseUrl |-> <<VttUrl>>],
      [languageCode |-> <<"fr">>, name |-> NoName, baseUrl |-> <<XmlUrl>>],
      [languageCode |-> <<"fr">>, name |-> ObjectName, baseUrl |-> <<XmlUrl>>],
      [languageCode |-> <<>>, name |-> StringName("English (auto-generated)"),
       baseUrl |-> <<XmlUrl>>],
      [languageCode |-> <<>>, name |-> StringName("Deutsch"), baseUrl |-> <<>>] }

MaxTracks == 2

TrackLists == UNION {[1 .. n -> TrackSamples] : n \in 0 .. MaxTracks}

\* one place of the page where caption tracks are looked for: whether the
\* pattern matches, whether the matched text parses, and the tracks it holds
NotFound == [found |-> FALSE, parses |-> FALSE, tracks |-> <<>>]
Garbled == [found |-> TRUE, parses |-> FALSE, tracks |-> <<>>]
Found(ts) == [found |-> TRUE, parses |-> TRUE, tracks |-> ts]

\* a page: the "captionTracks":[...] literal and the ytInitialData object;
\* ytInitialData is only read when the literal gave nothing
Pages ==
    {[literal |-> Found(ts), ytData |-> NotFound] : ts \in TrackLists}
    \cup {[literal |-> l, ytData |-> y] :
            l \in {NotFound, Garbled},
            y \in {NotFound, Garbled} \cup {Found(ts) : ts \in TrackLists}}

\* extractCaptionTracks(htmlContent)
extractCaptionTracks(htmlContent) ==
    IF htmlContent.literal.found /\ htmlContent.literal.parses
    THEN htmlContent.literal.tracks
    ELSE IF /\ htmlContent.ytData.found /\ htmlContent.ytData.parses
            /\ Len(htmlContent.ytData.tracks) > 0
    THEN htmlContent.ytData.tracks
    ELSE <<>>

NoTrack == <<>>

RECURSIVE FindEnglishFrom(_, _)
\* captionTracks.find(track => track.languageCode?.startsWith('en') ||
\* track.name?.includes('English')) from index i on
FindEnglishFrom(captionTracks, i) ==
    IF i > Len(captionTracks) THEN [threw |-> FALSE, track |-> NoTrack]
    ELSE LET t == captionTracks[i]
         IN  IF LanguageStartsWithEn(t) THEN [threw |-> FALSE, track |-> t]
             ELSE IF t.name.type = "object" THEN [threw |-> TRUE, track |-> NoTrack]
             ELSE IF t.name.type = "string" /\ NameIncludesEnglish(t)
             THEN [threw |-> FALSE, track |-> t]
             ELSE FindEnglishFrom(captionTracks, i + 1)

\* const englishTrack = captionTracks.find(...) || captionTracks[0], for a
\* list that is not empty
EnglishTrack(captionTracks) ==
    LET found == FindEnglishFrom(captionTracks, 1)
    IN  IF found.threw \/ found.track # NoTrack THEN found
        ELSE [threw |-> FALSE, track |-> captionTracks[1]]

\* !englishTrack.baseUrl
BaseUrlMissing(t) == (t.baseUrl = <<>>) \/ (t.baseUrl[1] = "")

(***************************************************************************)
(* Caption documents and their parsers.                                    *)
(*                                                                         *)
(* A WebVTT document is the sequence of its lines.  A line that matches    *)
(* the timing pattern (HH:MM:SS.mmm --> HH:MM:SS.mmm at its start) is kept *)
(* by its two captured timestamps, each by its digit groups; any other     *)
(* line by its text.  An XML document is the sequence of the elements that *)
(* the pattern of parseXMLCaptions matches (text elements with a start and *)
(* a dur attribute and no markup inside), each by parseFloat of its two    *)
(* attributes and by its content.                                          *)
(***************************************************************************)
Timestamp(h, m, s, f) == [h |-> h, m |-> m, s |-> s, f |-> f]

TimingLine(start, end) ==
    [timing |-> TRUE, start |-> start, end |-> end, raw |-> EmptyStr]

TextLine(raw) ==
    [timing |-> FALSE, start |-> Timestamp(0, 0, 0, 0),
     end |-> Timestamp(0, 0, 0, 0), raw |-> raw]

\* parseTimestamp("HH:MM:SS.mmm") in seconds
parseTimestamp(timestamp) ==
    Num((timestamp.h * 3600 + timestamp.m * 60 + timestamp.s) * 1000
        + timestamp.f)

Segment(txt, offset, duration) ==
    [text |-> txt, offset |-> offset, duration |-> duration]

\* let currentSegment = null
NoSegment == <<>>

\* if (currentSegment && currentSegment.text) segments.push(currentSegment)
PushCurrent(st) ==
    IF st.currentSegment # NoSegment /\ st.currentSegment.text # EmptyStr
    THEN Append(st.segments, st.currentSegment)
    ELSE st.segments

\* line.replace(/<[^>]*>/g, '').replace(/&amp;/g, '&')
\*     .replace(/&lt;/g, '<').replace(/&gt;/g, '>')
CleanVttText(line) ==
    ReplaceAll(
        ReplaceAll(
            ReplaceAll(StripTags(line), Lit(<<"&", "a", "m", "p", ";">>),
                       Lit(<<"&">>)),
            Lit(<<"&", "l", "t", ";">>), Lit(<<"<">>)),
        Lit(<<"&", "g", "t", ";">>), Lit(<<">">>))

\* one iteration of the loop of parseVTTContent
VttStep(st, rawLine) ==
    LET line == Trim(rawLine.raw)
    IN  IF rawLine.timing
        THEN [segments |-> PushCurrent(st),
              currentSegment |->
                  Segment(EmptyStr,
                          Times1000(parseTimestamp(rawLine.start)),
                          Times1000(Minus(parseTimestamp(rawLine.end),
                                          parseTimestamp(rawLine.start))))]
        ELSE IF \/ line = EmptyStr
                \/ StartsWith(line, Lit(<<"W", "E", "B", "V", "T", "T">>))
                \/ StartsWith(line, Lit(<<"N", "O", "T", "E">>))
        THEN st
        ELSE IF /\ st.currentSegment # NoSegment
                /\ ~Includes(line, Lit(<<"-", "-", ">">>))
        THEN LET cleanText == CleanVttText(line)
                 cur == st.currentSegment
             IN  IF Trim(cleanText) # EmptyStr
                 THEN [st EXCEPT !.currentSegment.text =
                          Concat(Concat(cur.text,
                                        IF cur.text # EmptyStr
                                        THEN Repeat(" ", 1) ELSE EmptyStr),
                                 Trim(cleanText))]
                 ELSE st
        ELSE st

RECURSIVE VttLoop(_, _, _)
VttLoop(lines, i, st) ==
    IF i > Len(lines) THEN st
    ELSE VttLoop(lines, i + 1, VttStep(st, lines[i]))

\* parseVTTContent(vttContent); on an XML document no line matches the
\* timing pattern and currentSegment stays null
parseVTTContent(vttContent) ==
    IF vttContent.fmt = "vtt"
    THEN PushCurrent(VttLoop(vttContent.lines, 1,
                             [segments |-> <<>>, currentSegment |-> NoSegment]))
    ELSE <<>>

Element(start, dur, content) ==
    [start |-> start, dur |-> dur, content |-> content]

\* the replacements of parseXMLCaptions without the final trim
CleanXmlTextUntrimmed(content) ==
    ReplaceAll(
        ReplaceAll(
            ReplaceAll(
                ReplaceAll(
                    ReplaceAll(content, Lit(<<"&", "a", "m", "p", ";">>),
                               Lit(<<"&">>)),
                    Lit(<<"&", "l", "t", ";">>), Lit(<<"<">>)),
                Lit(<<"&", "g", "t", ";">>), Lit(<<">">>)),
            Lit(<<"&", "#", "3", "9", ";">>), Lit(<<"'">>)),
        Lit(<<"&", "q", "u", "o", "t", ";">>), Lit(<<"\"">>))

\* match[3].replace(/&amp;/g, '&').replace(/&lt;/g, '<').replace(/&gt;/g, '>')
\*     .replace(/&#39;/g, "'").replace(/&quot;/g, '"').trim()
CleanXmlText(content) ==
    Trim(ReplaceAll(
        ReplaceAll(
            ReplaceAll(
                ReplaceAll(
                    ReplaceAll(content, Lit(<<"&", "a", "m", "p", ";">>),
                               Lit(<<"&">>)),
                    Lit(<<"&", "l", "t", ";">>), Lit(<<"<">>)),
                Lit(<<"&", "g", "t", ";">>), Lit(<<">">>)),
            Lit(<<"&", "#", "3", "9", ";">>), Lit(<<"'">>)),
        Lit(<<"&", "q", "u", "o", "t", ";">>), Lit(<<"\"">>)))

RECURSIVE XmlLoop(_, _, _)
\* the while loop of parseXMLCaptions over the matches
XmlLoop(elements, i, segments) ==
    IF i > Len(elements) THEN segments
    ELSE LET match == elements[i]
             txt == CleanXmlText(match.content)
         IN  XmlLoop(elements, i + 1,
                     IF txt # EmptyStr
                     THEN Append(segments,
                                 Segment(txt, Times1000(match.start),
                                         Times1000(match.dur)))
                     ELSE segments)

\* parseXMLCaptions(xmlContent); a WebVTT document of the model holds no
\* <text start=... dur=...> element
parseXMLCaptions(xmlContent) ==
    IF xmlContent.fmt = "xml" THEN XmlLoop(xmlContent.lines, 1, <<>>)
    ELSE <<>>

\* the caption content is parsed by the format named in the track's URL
ParseCaptions(baseUrl, captionContent) ==
    IF BaseUrlIncludesFmtVtt(baseUrl)
    THEN parseVTTContent(captionContent)
    ELSE parseXMLCaptions(captionContent)

VttLineSamples ==
    { TimingLine(Timestamp(0, 0, 1, 0), Timestamp(0, 0, 3, 500)),
      TimingLine(Timestamp(0, 1, 5, 250), Timestamp(0, 1, 4, 0)),
      TextLine(Lit(<<" ", "<", "c", ">", "a", "&", "a", "m", "p", ";", "b",
                     "<", "/", "c", ">", " ">>)),
      TextLine(Lit(<<"W", "E", "B", "V", "T", "T">>)),
      TextLine(Lit(<<"1", " ", "-", "-", ">", " ", "2">>)) }

XmlElementSamples ==
    { Element(Num(0), Num(1500), Lit(<<"a", "&", "a", "m", "p", ";", "b">>)),
      Element(NaN, NaN, Lit(<<"h", "i">>)),
      Element(Num(1000), Num(1000), Lit(<<" ">>)) }

MaxVttLines == 2

MaxXmlElements == 2

CaptionDocs ==
    {[fmt |-> "vtt", lines |-> ls] :
        ls \in UNION {[1 .. n -> VttLineSamples] : n \in 0 .. MaxVttLines}}
    \cup
    {[fmt |-> "xml", lines |-> es] :
        es \in UNION {[1 .. n -> XmlElementSamples] : n \in 0 .. MaxXmlElements}}

(***************************************************************************)
(* The demonstration transcript written out in the route files.            *)
(***************************************************************************)
DemoTranscript ==
    <<
      Segment(
        Lit(<<"W", "e", "l", "c", "o", "m", "e", " ", "t", "o", " ", "t",
              "h", "i", "s", " ", "c", "o", "m", "p", "r", "e", "h", "e",
              "n", "s", "i", "v", "e", " ", "v", "i", "d", "e", "o", " ",
              "t", "u", "t", "o", "r", "i", "a", "l", ".">>),
        Whole(0), Whole(3500)),
      Segment(
        Lit(<<"T", "o", "d", "a", "y", " ", "w", "e", "'", "r", "e", " ",
              "e", "x", "p", "l", "o", "r", "i", "n", "g", " ", "t", "h",
              "e", " ", "f", "a", "s", "c", "i", "n", "a", "t", "i", "n",
              "g", " ", "w", "o", "r", "l", "d", " ", "o", "f", " ", "a",
              "r", "t", "i", "f", "i", "c", "i", "a", "l", " ", "i", "n",
              "t", "e", "l", "l", "i", "g", "e", "n", "c", "e", " ", "a",
              "n", "d", " ", "m", "a", "c", "h", "i", "n", "e", " ", "l",
              "e", "a", "r", "n", "i", "n", "g", ".">>),
        Whole(3500), Whole(5000)),
      Segment(
        Lit(<<"A", "I", " ", "h", "a", "s", " ", "r", "e", "v", "o", "l",
              "u", "t", "i", "o", "n", "i", "z", "e", "d", " ", "c", "o",
              "u", "n", "t", "l", "e", "s", "s", " ", "i", "n", "d", "u",
              "s", "t", "r", "i", "e", "s", ",", " ", "f", "r", "o", "m",
              " ", "h", "e", "a", "l", "t", "h", "c", "a", "r", "e", " ",
              "t", "o", " ", "f", "i", "n", "a", "n", "c", "e", " ", "t",
              "o", " ", "e", "n", "t", "e", "r", "t", "a", "i", "n", "m",
              "e", "n", "t", ".">>),
        Whole(8500), Whole(4800)),
      Segment(
        Lit(<<"M", "a", "c", "h", "i", "n", "e", " ", "l", "e", "a", "r",
              "n", "i", "n", "g", " ", "a", "l", "g", "o", "r", "i", "t",
              "h", "m", "s", " ", "c", "a", "n", " ", "a", "n", "a", "l",
              "y", "z", "e", " ", "v", "a", "s", "t", " ", "a", "m", "o",
              "u", "n", "t", "s", " ", "o", "f", " ", "d", "a", "t", "a",
              " ", "t", "o", " ", "f", "i", "n", "d", " ", "p", "a", "t",
              "t", "e", "r", "n", "s", " ", "a", "n", "d", " ", "m", "a",
              "k", "e", " ", "p", "r", "e", "d", "i", "c", "t", "i", "o",
              "n", "s", ".">>),
        Whole(13300), Whole(6200)),
      Segment(
        Lit(<<"D", "e", "e", "p", " ", "l", "e", "a", "r", "n", "i", "n",
              "g", ",", " ", "a", " ", "s", "u", "b", "s", "e", "t", " ",
              "o", "f", " ", "m", "a", "c", "h", "i", "n", "e", " ", "l",
              "e", "a", "r", "n", "i", "n", "g", ",", " ", "u", "s", "e",
              "s", " ", "n", "e", "u", "r", "a", "l", " ", "n", "e", "t",
              "w", "o", "r", "k", "s", " ", "t", "o", " ", "p", "r", "o",
              "c", "e", "s", "s", " ", "i", "n", "f", "o", "r", "m", "a",
              "t", "i", "o", "n", ".">>),
        Whole(19500), Whole(5500)),
      Segment(
        Lit(<<"T", "h", "e", "s", "e", " ", "n", "e", "u", "r", "a", "l",
              " ", "n", "e", "t", "w", "o", "r", "k", "s", " ", "a", "r",
              "e", " ", "i", "n", "s", "p", "i", "r", "e", "d", " ", "b",
              "y", " ", "h", "o", "w", " ", "t", "h", "e", " ", "h", "u",
              "m", "a", "n", " ", "b", "r", "a", "i", "n", " ", "p", "r",
              "o", "c", "e", "s", "s", "e", "s", " ", "i", "n", "f", "o",
              "r", "m", "a", "t", "i", "o", "n", ".">>),
        Whole(25000), Whole(4700)),
      Segment(
        Lit(<<"N", "a", "t", "u", "r", "a", "l", " ", "l", "a", "n", "g",
              "u", "a", "g", "e", " ", "p", "r", "o", "c", "e", "s", "s",
              "i", "n", "g", " ", "a", "l", "l", "o", "w", "s", " ", "c",
              "o", "m", "p", "u", "t", "e", "r", "s", " ", "t", "o", " ",
              "u", "n", "d", "e", "r", "s", "t", "a", "n", "d", " ", "a",
              "n", "d", " ", "g", "e", "n", "e", "r", "a", "t", "e", " ",
              "h", "u", "m", "a", "n", " ", "l", "a", "n", "g", "u", "a",
              "g", "e", ".">>),
        Whole(29700), Whole(5200)),
      Segment(
        Lit(<<"C", "o", "m", "p", "u", "t", "e", "r", " ", "v", "i", "s",
              "i", "o", "n", " ", "e", "n", "a", "b", "l", "e", "s", " ",
              "m", "a", "c", "h", "i", "n", "e", "s", " ", "t", "o", " ",
              "i", "n", "t", "e", "r", "p", "r", "e", "t", " ", "a", "n",
              "d", " ", "a", "n", "a", "l", "y", "z", "e", " ", "v", "i",
              "s", "u", "a", "l", " ", "i", "n", "f", "o", "r", "m", "a",
              "t", "i", "o", "n", " ", "f", "r", "o", "m", " ", "t", "h",
              "e", " ", "w", "o", "r", "l", "d", ".">>),
        Whole(34900), Whole(5800)),
      Segment(
        Lit(<<"I", "n", " ", "h", "e", "a", "l", "t", "h", "c", "a", "r",
              "e", ",", " ", "A", "I", " ", "a", "s", "s", "i", "s", "t",
              "s", " ", "w", "i", "t", "h", " ", "m", "e", "d", "i", "c",
              "a", "l", " ", "d", "i", "a", "g", "n", "o", "s", "i", "s",
              ",", " ", "d", "r", "u", "g", " ", "d", "i", "s", "c", "o",
              "v", "e", "r", "y", ",", " ", "a", "n", "d", " ", "t", "r",
              "e", "a", "t", "m", "e", "n", "t", " ", "p", "l", "a", "n",
              "n", "i", "n", "g", ".">>),
        Whole(40700), Whole(5400)),
      Segment(
        Lit(<<"F", "i", "n", "a", "n", "c", "i", "a", "l", " ", "i", "n",
              "s", "t", "i", "t", "u", "t", "i", "o", "n", "s", " ", "u",
              "s", "e", " ", "A", "I", " ", "f", "o", "r", " ", "f", "r",
              "a", "u", "d", " ", "d", "e", "t", "e", "c", "t", "i", "o",
              "n", ",", " ", "r", "i", "s", "k", " ", "a", "s", "s", "e",
              "s", "s", "m", "e", "n", "t", ",", " ", "a", "n", "d", " ",
              "a", "l", "g", "o", "r", "i", "t", "h", "m", "i", "c", " ",
              "t", "r", "a", "d", "i", "n", "g", ".">>),
        Whole(46100), Whole(5600)),
      Segment(
        Lit(<<"A", "u", "t", "o", "n", "o", "m", "o", "u", "s", " ", "v",
              "e", "h", "i", "c", "l", "e", "s", " ", "r", "e", "l", "y",
              " ", "o", "n", " ", "A", "I", " ", "t", "o", " ", "n", "a",
              "v", "i", "g", "a", "t", "e", " ", "r", "o", "a", "d", "s",
              " ", "a", "n", "d", " ", "m", "a", "k", "e", " ", "s", "p",
              "l", "i", "t", "-", "s", "e", "c", "o", "n", "d", " ", "d",
              "r", "i", "v", "i", "n", "g", " ", "d", "e", "c", "i", "s",
              "i", "o", "n", "s", ".">>),
        Whole(51700), Whole(5300)),
      Segment(
        Lit(<<"R", "e", "c", "o", "m", "m", "e", "n", "d", "a", "t", "i",
              "o", "n", " ", "s", "y", "s", "t", "e", "m", "s", " ", "u",
              "s", "e", " ", "A", "I", " ", "t", "o", " ", "s", "u", "g",
              "g", "e", "s", "t", " ", "c", "o", "n", "t", "e", "n", "t",
              ",", " ", "p", "r", "o", "d", "u", "c", "t", "s", ",", " ",
              "a", "n", "d", " ", "s", "e", "r", "v", "i", "c", "e", "s",
              " ", "t", "o", " ", "u", "s", "e", "r", "s", ".">>),
        Whole(57000), Whole(4900)),
      Segment(
        Lit(<<"T", "h", "e", " ", "e", "t", "h", "i", "c", "a", "l", " ",
              "i", "m", "p", "l", "i", "c", "a", "t", "i", "o", "n", "s",
              " ", "o", "f", " ", "A", "I", " ", "d", "e", "v", "e", "l",
              "o", "p", "m", "e", "n", "t", " ", "r", "e", "q", "u", "i",
              "r", "e", " ", "c", "a", "r", "e", "f", "u", "l", " ", "c",
              "o", "n", "s", "i", "d", "e", "r", "a", "t", "i", "o", "n",
              " ", "a", "n", "d", " ", "o", "v", "e", "r", "s", "i", "g",
              "h", "t", ".">>),
        Whole(61900), Whole(5100)),
      Segment(
        Lit(<<"B", "i", "a", "s", " ", "i", "n", " ", "A", "I", " ", "s",
              "y", "s", "t", "e", "m", "s", " ", "c", "a", "n", " ", "l",
              "e", "a", "d", " ", "t", "o", " ", "u", "n", "f", "a", "i",
              "r", " ", "o", "u", "t", "c", "o", "m", "e", "s", " ", "a",
              "n", "d", " ", "d", "i", "s", "c", "r", "i", "m", "i", "n",
              "a", "t", "o", "r", "y", " ", "p", "r", "a", "c", "t", "i",
              "c", "e", "s", ".">>),
        Whole(67000), Whole(4600)),
      Segment(
        Lit(<<"T", "r", "a", "n", "s", "p", "a", "r", "e", "n", "c", "y",
              " ", "a", "n", "d", " ", "e", "x", "p", "l", "a", "i", "n",
              "a", "b", "i", "l", "i", "t", "y", " ", "i", "n", " ", "A",
              "I", " ", "m", "o", "d", "e", "l", "s", " ", "a", "r", "e",
              " ", "c", "r", "u", "c", "i", "a", "l", " ", "f", "o", "r",
              " ", "b", "u", "i", "l", "d", "i", "n", "g", " ", "t", "r",
              "u", "s", "t", ".">>),
        Whole(71600), Whole(4800)),
      Segment(
        Lit(<<"T", "h", "e", " ", "f", "u", "t", "u", "r", "e", " ", "o",
              "f", " ", "A", "I", " ", "h", "o", "l", "d", "s", " ", "i",
              "n", "c", "r", "e", "d", "i", "b", "l", "e", " ", "p", "o",
              "t", "e", "n", "t", "i", "a", "l", " ", "f", "o", "r", " ",
              "s", "o", "l", "v", "i", "n", "g", " ", "c", "o", "m", "p",
              "l", "e", "x", " ", "g", "l", "o", "b", "a", "l", " ", "c",
              "h", "a", "l", "l", "e", "n", "g", "e", "s", ".">>),
        Whole(76400), Whole(5200)),
      Segment(
        Lit(<<"F", "r", "o", "m", " ", "c", "l", "i", "m", "a", "t", "e",
              " ", "c", "h", "a", "n", "g", "e", " ", "t", "o", " ", "p",
              "o", "v", "e", "r", "t", "y", ",", " ", "A", "I", " ", "c",
              "o", "u", "l", "d", " ", "h", "e", "l", "p", " ", "u", "s",
              " ", "f", "i", "n", "d", " ", "i", "n", "n", "o", "v", "a",
              "t", "i", "v", "e", " ", "s", "o", "l", "u", "t", "i", "o",
              "n", "s", ".">>),
        Whole(81600), Whole(4900)),
      Segment(
        Lit(<<"H", "o", "w", "e", "v", "e", "r", ",", " ", "w", "e", " ",
              "m", "u", "s", "t", " ", "e", "n", "s", "u", "r", "e", " ",
              "A", "I", " ", "d", "e", "v", "e", "l", "o", "p", "m", "e",
              "n", "t", " ", "r", "e", "m", "a", "i", "n", "s", " ", "a",
              "l", "i", "g", "n", "e", "d", " ", "w", "i", "t", "h", " ",
              "h", "u", "m", "a", "n", " ", "v", "a", "l", "u", "e", "s",
              " ", "a", "n", "d", " ", "n", "e", "e", "d", "s", ".">>),
        Whole(86500), Whole(5400)),
      Segment(
        Lit(<<"C", "o", "l", "l", "a", "b", "o", "r", "a", "t", "i", "o",
              "n", " ", "b", "e", "t", "w", "e", "e", "n", " ", "t", "e",
              "c", "h", "n", "o", "l", "o", "g", "i", "s", "t", "s", ",",
              " ", "p", "o", "l", "i", "c", "y", "m", "a", "k", "e", "r",
              "s", ",", " ", "a", "n", "d", " ", "s", "o", "c", "i", "e",
              "t", "y", " ", "i", "s", " ", "e", "s", "s", "e", "n", "t",
              "i", "a", "l", ".">>),
        Whole(91900), Whole(4700)),
      Segment(
        Lit(<<"T", "h", "a", "n", "k", " ", "y", "o", "u", " ", "f", "o",
              "r", " ", "j", "o", "i", "n", "i", "n", "g", " ", "m", "e",
              " ", "o", "n", " ", "t", "h", "i", "s", " ", "e", "x", "p",
              "l", "o", "r", "a", "t", "i", "o", "n", " ", "o", "f", " ",
              "a", "r", "t", "i", "f", "i", "c", "i", "a", "l", " ", "i",
              "n", "t", "e", "l", "l", "i", "g", "e", "n", "c", "e", " ",
              "a", "n", "d", " ", "i", "t", "s", " ", "i", "m", "p", "a",
              "c", "t", " ", "o", "n", " ", "o", "u", "r", " ", "w", "o",
              "r", "l", "d", ".">>),
        Whole(96600), Whole(6000)),
      Segment(
        Lit(<<"D", "o", "n", "'", "t", " ", "f", "o", "r", "g", "e", "t",
              " ", "t", "o", " ", "l", "i", "k", "e", " ", "t", "h", "i",
              "s", " ", "v", "i", "d", "e", "o", " ", "a", "n", "d", " ",
              "s", "u", "b", "s", "c", "r", "i", "b", "e", " ", "f", "o",
              "r", " ", "m", "o", "r", "e", " ", "t", "e", "c", "h", "n",
              "o", "l", "o", "g", "y", " ", "c", "o", "n", "t", "e", "n",
              "t", ".">>),
        Whole(102600), Whole(4200)),
      Segment(
        Lit(<<"L", "e", "a", "v", "e", " ", "a", " ", "c", "o", "m", "m",
              "e", "n", "t", " ", "b", "e", "l", "o", "w", " ", "a", "b",
              "o", "u", "t", " ", "w", "h", "i", "c", "h", " ", "A", "I",
              " ", "t", "o", "p", "i", "c", " ", "i", "n", "t", "e", "r",
              "e", "s", "t", "s", " ", "y", "o", "u", " ", "m", "o", "s",
              "t", ".">>),
        Whole(106800), Whole(4000)),
      Segment(
        Lit(<<"U", "n", "t", "i", "l", " ", "n", "e", "x", "t", " ", "t",
              "i", "m", "e", ",", " ", "k", "e", "e", "p", " ", "l", "e",
              "a", "r", "n", "i", "n", "g", " ", "a", "n", "d", " ", "s",
              "t", "a", "y", " ", "c", "u", "r", "i", "o", "u", "s", " ",
              "a", "b", "o", "u", "t", " ", "t", "h", "e", " ", "f", "u",
              "t", "u", "r", "e", " ", "o", "f", " ", "t", "e", "c", "h",
              "n", "o", "l", "o", "g", "y", ".">>),
        Whole(110800), Whole(5000)) >>

(***************************************************************************)
(* POST /api/transcript.                                                   *)
(*                                                                         *)
(* The repository keeps several route files; impl tells which one serves   *)
(* the request: "scrape" reads the caption tracks off the video page,      *)
(* "demo" answers from the demonstration transcript, "library" and "node"  *)
(* call the caption library, "ytdlp" runs the external downloader.         *)
(***************************************************************************)
TranscriptImpls == {"scrape", "demo", "library", "node", "ytdlp"}

\* one element of items
ItemOf(item) ==
    [text |-> Trim(item.text),
     start |-> Div1000(item.offset),
     duration |-> Div1000(item.duration),
     timestamp |-> formatTimestamp(Div1000(item.offset))]

\* the response built from transcriptData
TranscriptResponse(data) ==
    LET items == [i \in DOMAIN data |-> ItemOf(data[i])]
        fullTranscript == JoinWithSpace([i \in DOMAIN items |-> items[i].text])
        characterCount == StrLen(fullTranscript)
    IN  [status |-> 200,
         items |-> items,
         transcript |-> fullTranscript,
         characterCount |-> characterCount,
         tokenCount |-> estimateTokenCount(characterCount)]

\* what a fetch settles with: it throws (says tells what the message of the
\* error mentions), or gives a response that is not ok, or one that is ok
\* with its text
Thrown(says) == [kind |-> "throws", says |-> says, content |-> <<>>]
NotOk == [kind |-> "notOk", says |-> "", content |-> <<>>]
Ok(content) == [kind |-> "ok", says |-> "", content |-> content]

ErrorSayings == {"private", "age-restricted", "other"}

PageOutcomes ==
    {Thrown(m) : m \in ErrorSayings} \cup {NotOk} \cup {Ok(p) : p \in Pages}

CaptionOutcomes ==
    {Thrown(m) : m \in ErrorSayings} \cup {NotOk}
    \cup {Ok(d) : d \in CaptionDocs}

PageCall(id) == [kind |-> "page", url |-> id]
CaptionCall(baseUrl) == [kind |-> "captions", url |-> baseUrl]

\* a catch that answers with the text of the error
CatchFetchErrorEcho(says) == ErrorResponse(500, says)

\* the catch of the acquisition try block
CatchFetchError(says) ==
    IF says = "private" THEN ErrorResponse(403, MsgPrivate)
    ELSE IF says = "age-restricted" THEN ErrorResponse(403, MsgAgeRestricted)
    ELSE ErrorResponse(500, MsgNoExtract)

TrInit ==
    /\ pc = "request"
    /\ impl \in TranscriptImpls
    /\ body \in TranscriptBodies
    /\ videoId = ""
    /\ track = NoTrack
    /\ transcriptData = <<>>
    /\ calls = <<>>
    /\ replies = <<>>
    /\ res = <<>>
    /\ text = Idle /\ maxTokens = Idle /\ chunks = Idle
    /\ env = Idle /\ summaries = Idle /\ finalSummary = Idle
    /\ seconds = Idle /\ stamp = Idle
    /\ parked = Idle /\ turn = Idle

TrUnused ==
    <<text, maxTokens, chunks, env, summaries, finalSummary, seconds, stamp,
      parked, turn>>

\* an error answer without its return: the handler goes on and answers again
TrFailThenSendAgain(response) ==
    /\ res' = Append(Append(res, response), response)
    /\ pc' = "done"

\* return res.status(status).json({ message })
TrFail(response) ==
    /\ res' = Append(res, response)
    /\ pc' = "done"

\* the handler from "Process transcript items" to res.json(response)
TrFinish(data) ==
    /\ transcriptData' = data
    /\ res' = Append(res, TranscriptResponse(data))
    /\ pc' = "done"

\* part_002: the whole handler, which awaits nothing
DemoReceive ==
    /\ pc = "request" /\ impl = "demo"
    /\ UNCHANGED TrUnused
    /\ UNCHANGED <<impl, body, track, calls, replies>>
    /\ IF ~TranscriptBodyValid(body)
       THEN /\ TrFail(ErrorResponse(400, MsgInvalidTranscript))
            /\ UNCHANGED <<videoId, transcriptData>>
       ELSE LET extracted == ExtractVideoId(body.url.value)
            IN  IF extracted.threw
                THEN /\ TrFail(ErrorResponse(400, MsgInvalidUrl))
                     /\ UNCHANGED <<videoId, transcriptData>>
                ELSE /\ videoId' = extracted.videoId
                     /\ TrFinish(DemoTranscript)

\* part_001: the handler from its entry to the fetch of the video page
ScrapeReceive ==
    /\ pc = "request" /\ impl = "scrape"
    /\ UNCHANGED TrUnused
    /\ UNCHANGED <<impl, body, track, replies, transcriptData>>
    /\ IF ~TranscriptBodyValid(body)
       THEN /\ TrFail(ErrorResponse(400, MsgInvalidTranscript))
            /\ UNCHANGED <<videoId, calls>>
       ELSE LET extracted == ExtractVideoId(body.url.value)
            IN  IF extracted.threw
                THEN /\ TrFail(ErrorResponse(400, MsgInvalidUrl))
                     /\ UNCHANGED <<videoId, calls>>
                ELSE /\ videoId' = extracted.videoId
                     /\ calls' = Append(calls, PageCall(extracted.videoId))
                     /\ pc' = "awaitPage"
                     /\ res' = res

\* part_001: the page fetch settles with outcome o; the tracks are read off
\* the page and the caption content of the chosen track is fetched
ScrapePageReturn(o) ==
    /\ pc = "awaitPage" /\ impl = "scrape"
    /\ UNCHANGED TrUnused
    /\ UNCHANGED <<impl, body, videoId>>
    /\ replies' = Append(replies, o)
    /\ IF o.kind = "throws"
       THEN /\ TrFail(CatchFetchError(o.says))
            /\ UNCHANGED <<track, calls, transcriptData>>
       ELSE IF o.kind = "notOk"
       THEN /\ TrFail(ErrorResponse(404, MsgPageNotOk))
            /\ UNCHANGED <<track, calls, transcriptData>>
       ELSE LET captionTracks == extractCaptionTracks(o.content)
                english == EnglishTrack(captionTracks)
            IN  IF Len(captionTracks) = 0
                THEN /\ TrFinish(DemoTranscript)
                     /\ UNCHANGED <<track, calls>>
                ELSE IF english.threw
                THEN /\ TrFail(CatchFetchError("other"))
                     /\ UNCHANGED <<track, calls, transcriptData>>
                ELSE /\ track' = english.track
                     /\ IF BaseUrlMissing(english.track)
                        THEN /\ TrFail(ErrorResponse(404, MsgNoTrack))
                             /\ UNCHANGED <<calls, transcriptData>>
                        ELSE /\ calls' = Append(calls,
                                        CaptionCall(english.track.baseUrl[1]))
                             /\ pc' = "awaitCaptions"
                             /\ UNCHANGED <<res, transcriptData>>

\* part_001: the caption fetch settles with outcome o; its content is parsed
\* and the response is sent
ScrapeCaptionReturn(o) ==
    /\ pc = "awaitCaptions" /\ impl = "scrape"
    /\ UNCHANGED TrUnused
    /\ UNCHANGED <<impl, body, videoId, track, calls>>
    /\ replies' = Append(replies, o)
    /\ IF o.kind = "throws"
       THEN /\ TrFail(CatchFetchError(o.says))
            /\ UNCHANGED transcriptData
       ELSE IF o.kind = "notOk"
       THEN /\ TrFail(ErrorResponse(500, MsgCaptionsNotOk))
            /\ UNCHANGED transcriptData
       ELSE LET data == ParseCaptions(track.baseUrl[1], o.content)
            IN  IF Len(data) = 0
                THEN /\ TrFail(ErrorResponse(404, MsgNoSegments))
                     /\ transcriptData' = data
                ELSE TrFinish(data)

(***************************************************************************)
(* The caption library (YoutubeTranscript.fetchTranscript).                *)
(*                                                                         *)
(* A call gives a list of segments {text, offset, duration}, whose text    *)
(* the library passes on as it finds it, or throws an error that carries a *)
(* name and a message.                                                     *)
(***************************************************************************)
LibSegmentSamples ==
    { Segment(Lit(<<"H", "e", "l", "l", "o">>), Whole(0), Whole(1500)),
      Segment(Lit(<<" ", "w", "o", "r", "l", "d", " ">>),
              Whole(61500), Whole(2000)),
      Segment(Lit(<<" ">>), Whole(3000), Whole(0)) }

MaxLibSegments == 2

LibLists == UNION {[1 .. n -> LibSegmentSamples] : n \in 0 .. MaxLibSegments}

\* an error thrown by the library: its name and what its message mentions
ThrownNamed(name, says) ==
    [kind |-> "throws", says |-> says, name |-> name, content |-> <<>>]

LibraryErrors ==
    { ThrownNamed("YoutubeTranscriptDisabledError", "other"),
      ThrownNamed("YoutubeTranscriptNotAvailableError", "other"),
      ThrownNamed("YoutubeTranscriptTooManyRequestsError", "other"),
      ThrownNamed("Error", "private"),
      ThrownNamed("Error", "age-restricted"),
      ThrownNamed("Error", "other") }

LibraryOutcomes == LibraryErrors \cup {Ok(l) : l \in LibLists}

\* the language options in another order
LanguageOptionsRegionFirst == <<"en-US", "en", "en-GB">>

\* const languageOptions = ['en', 'en-US', 'en-GB']
LanguageOptions == <<"en", "en-US", "en-GB">>

\* fetchTranscript(videoId, { lang }) and, with lang <<>>, fetchTranscript(videoId)
LibCall(id, lang) == [kind |-> "library", url |-> id, lang |-> lang]

\* the language of attempt n: the language options in order, then none
AttemptLang(n) ==
    IF n <= Len(LanguageOptions) THEN <<LanguageOptions[n]>> ELSE <<>>

\* transcript.map(item => ({ text, offset, duration }))
LibMap(transcript) ==
    [i \in DOMAIN transcript |->
        Segment(transcript[i].text, transcript[i].offset,
                transcript[i].duration)]

MsgNoTranscript == "No transcript is available for this video. This could be due to: the video not having captions enabled, regional restrictions, or the captions being auto-generated only in non-English languages."
MsgNodeDisabled == "This video has transcripts disabled by the creator. Please try a different video that has captions enabled. You can verify captions are available by looking for the 'CC' button in the YouTube player."
MsgNodeNotAvailable == "No transcript is available for this video in English. The video may not have captions, or captions may only be available in other languages."
MsgNodeTooMany == "Too many requests to YouTube. Please wait a moment and try again."
MsgNodeNoExtract == "Unable to extract transcript from this video. The video may be private, age-restricted, or have other access limitations. Please try a different public video with captions enabled."

\* routes.ts, first handler: from its entry to the first library call
LibReceive ==
    /\ pc = "request" /\ impl = "library"
    /\ UNCHANGED TrUnused
    /\ UNCHANGED <<impl, body, track, replies, transcriptData>>
    /\ IF ~TranscriptBodyValid(body)
       THEN /\ TrFail(ErrorResponse(400, MsgInvalidTranscript))
            /\ UNCHANGED <<videoId, calls>>
       ELSE LET extracted == ExtractVideoId(body.url.value)
            IN  IF extracted.threw
                THEN /\ TrFail(ErrorResponse(400, MsgInvalidUrl))
                     /\ UNCHANGED <<videoId, calls>>
                ELSE /\ videoId' = extracted.videoId
                     /\ calls' = Append(calls,
                                    LibCall(extracted.videoId, AttemptLang(1)))
                     /\ pc' = "awaitLibrary"
                     /\ res' = res

\* the language chain when an exception of an attempt ends the request
LibReturnAbortOnThrow(o) ==
    /\ pc = "awaitLibrary" /\ impl = "library"
    /\ UNCHANGED TrUnused
    /\ UNCHANGED <<impl, body, videoId, track>>
    /\ replies' = Append(replies, o)
    /\ IF o.kind = "ok" /\ Len(o.content) > 0
       THEN /\ TrFinish(LibMap(o.content))
            /\ calls' = calls
       ELSE IF o.kind = "ok" /\ Len(calls) <= Len(LanguageOptions)
       THEN /\ calls' = Append(calls,
                              LibCall(videoId, AttemptLang(Len(calls) + 1)))
            /\ pc' = "awaitLibrary"
            /\ UNCHANGED <<res, transcriptData>>
       ELSE /\ TrFail(ErrorResponse(404, MsgNoTranscript))
            /\ UNCHANGED <<calls, transcriptData>>

\* routes.ts, first handler: a library call settles with outcome o.  An
\* error is caught and logged; a non-empty list ends the attempts and is
\* answered; otherwise the next language, then the call without language,
\* then 404.
LibReturn(o) ==
    /\ pc = "awaitLibrary" /\ impl = "library"
    /\ UNCHANGED TrUnused
    /\ UNCHANGED <<impl, body, videoId, track>>
    /\ replies' = Append(replies, o)
    /\ IF o.kind = "ok" /\ Len(o.content) > 0
       THEN /\ TrFinish(LibMap(o.content))
            /\ calls' = calls
       ELSE IF Len(calls) <= Len(LanguageOptions)
       THEN /\ calls' = Append(calls,
                              LibCall(videoId, AttemptLang(Len(calls) + 1)))
            /\ pc' = "awaitLibrary"
            /\ UNCHANGED <<res, transcriptData>>
       ELSE /\ TrFail(ErrorResponse(404, MsgNoTranscript))
            /\ UNCHANGED <<calls, transcriptData>>

\* part_000: from the entry of the handler to the call of fetchTranscriptNode
NodeReceive ==
    /\ pc = "request" /\ impl = "node"
    /\ UNCHANGED TrUnused
    /\ UNCHANGED <<impl, body, track, replies, transcriptData>>
    /\ IF ~TranscriptBodyValid(body)
       THEN /\ TrFail(ErrorResponse(400, MsgInvalidTranscript))
            /\ UNCHANGED <<videoId, calls>>
       ELSE LET extracted == ExtractVideoId(body.url.value)
            IN  IF extracted.threw
                THEN /\ TrFail(ErrorResponse(400, MsgInvalidUrl))
                     /\ UNCHANGED <<videoId, calls>>
                ELSE /\ videoId' = extracted.videoId
                     /\ calls' = Append(calls, LibCall(extracted.videoId, <<>>))
                     /\ pc' = "awaitLibrary"
                     /\ res' = res

\* part_000, fetchTranscriptNode: what the awaited call gives the handler.
\* An empty list becomes new Error('No transcript available').
fetchTranscriptNode(o) ==
    IF o.kind = "ok" /\ Len(o.content) = 0
    THEN ThrownNamed("Error", "other")
    ELSE o

\* part_000: the catch of the acquisition try block, by error.name
CatchNodeError(name) ==
    IF name = "YoutubeTranscriptDisabledError"
    THEN ErrorResponse(404, MsgNodeDisabled)
    ELSE IF name = "YoutubeTranscriptNotAvailableError"
    THEN ErrorResponse(404, MsgNodeNotAvailable)
    ELSE IF name = "YoutubeTranscriptTooManyRequestsError"
    THEN ErrorResponse(429, MsgNodeTooMany)
    ELSE ErrorResponse(500, MsgNodeNoExtract)

\* part_000: the library call settles with outcome o
NodeReturn(o) ==
    /\ pc = "awaitLibrary" /\ impl = "node"
    /\ UNCHANGED TrUnused
    /\ UNCHANGED <<impl, body, videoId, track, calls>>
    /\ replies' = Append(replies, o)
    /\ LET given == fetchTranscriptNode(o)
       IN  IF given.kind = "throws"
           THEN /\ TrFail(CatchNodeError(given.name))
                /\ UNCHANGED transcriptData
           ELSE TrFinish(given.content)

(***************************************************************************)
(* The external downloader (yt-dlp) of the second handler of routes.ts.    *)
(***************************************************************************)
\* what --print requested_subtitles writes
SubtitleDataSamples == {"", "NA", "{'en': {'ext': 'vtt'}}"}

\* subtitleData && subtitleData.includes('en')
SubtitleDataIncludesEn(subtitleData) ==
    subtitleData \in {"{'en': {'ext': 'vtt'}}"}

PrintOutcomes ==
    {Thrown(m) : m \in ErrorSayings} \cup {Ok(d) : d \in SubtitleDataSamples}

GetUrlOutcomes == {Thrown(m) : m \in ErrorSayings} \cup {Ok(VttUrl)}

\* ytDlp.execPromise([url, ..., flag, '--no-warnings'])
ToolCall(flag) == [kind |-> "yt-dlp", url |-> flag]

\* parseVTTFromContent(vttContent): the loop of parseVTTContent inside a try
parseVTTFromContent(vttContent) == parseVTTContent(vttContent)

\* !subtitleContent.trim(): an XML document is never blank
ContentIsBlank(content) ==
    /\ content.fmt = "vtt"
    /\ \A i \in DOMAIN content.lines :
          ~content.lines[i].timing /\ Trim(content.lines[i].raw) = EmptyStr

MsgDownloadFailed == "Failed to download subtitle file from YouTube."
MsgNoCaptions == "No transcript is available for this video. Please ensure: 1) The video has captions enabled, 2) The video is public, 3) The video is not age-restricted. You can check if captions are available by looking for the 'CC' button in the YouTube player."

\* routes.ts, second handler: from its entry to the first yt-dlp run
YtdlpReceive ==
    /\ pc = "request" /\ impl = "ytdlp"
    /\ UNCHANGED TrUnused
    /\ UNCHANGED <<impl, body, track, replies, transcriptData>>
    /\ IF ~TranscriptBodyValid(body)
       THEN /\ TrFail(ErrorResponse(400, MsgInvalidTranscript))
            /\ UNCHANGED <<videoId, calls>>
       ELSE LET extracted == ExtractVideoId(body.url.value)
            IN  IF extracted.threw
                THEN /\ TrFail(ErrorResponse(400, MsgInvalidUrl))
                     /\ UNCHANGED <<videoId, calls>>
                ELSE /\ videoId' = extracted.videoId
                     /\ calls' = Append(calls, ToolCall("--print"))
                     /\ pc' = "awaitPrint"
                     /\ res' = res

\* routes.ts, second handler: the --print run settles with outcome o.  An
\* error is caught and logged, and with no subtitle data transcriptData
\* stays undefined: 404.
YtdlpPrintReturn(o) ==
    /\ pc = "awaitPrint" /\ impl = "ytdlp"
    /\ UNCHANGED TrUnused
    /\ UNCHANGED <<impl, body, videoId, track, transcriptData>>
    /\ replies' = Append(replies, o)
    /\ IF o.kind = "ok" /\ SubtitleDataIncludesEn(o.content)
       THEN /\ calls' = Append(calls, ToolCall("--get-url"))
            /\ pc' = "awaitGetUrl"
            /\ res' = res
       ELSE /\ TrFail(ErrorResponse(404, MsgNoCaptions))
            /\ calls' = calls

\* routes.ts, second handler: the --get-url run settles with outcome o
YtdlpUrlReturn(o) ==
    /\ pc = "awaitGetUrl" /\ impl = "ytdlp"
    /\ UNCHANGED TrUnused
    /\ UNCHANGED <<impl, body, videoId, track, transcriptData>>
    /\ replies' = Append(replies, o)
    /\ IF o.kind = "ok"
       THEN /\ calls' = Append(calls, CaptionCall(o.content))
            /\ pc' = "awaitSubtitle"
            /\ res' = res
       ELSE /\ TrFail(ErrorResponse(404, MsgNoCaptions))
            /\ calls' = calls

\* routes.ts, second handler: the download of the subtitle file settles
\* with outcome o
YtdlpSubtitleReturn(o) ==
    /\ pc = "awaitSubtitle" /\ impl = "ytdlp"
    /\ UNCHANGED TrUnused
    /\ UNCHANGED <<impl, body, videoId, track, calls>>
    /\ replies' = Append(replies, o)
    /\ IF o.kind # "ok" \/ ContentIsBlank(o.content)
       THEN /\ TrFail(ErrorResponse(502, MsgDownloadFailed))
            /\ UNCHANGED transcriptData
       ELSE LET data == parseVTTFromContent(o.content)
            IN  IF Len(data) = 0
                THEN /\ TrFail(ErrorResponse(404, MsgNoCaptions))
                     /\ transcriptData' = data
                ELSE TrFinish(data)

TrNext ==
    \/ DemoReceive
    \/ ScrapeReceive
    \/ \E o \in PageOutcomes : ScrapePageReturn(o)
    \/ \E o \in CaptionOutcomes : ScrapeCaptionReturn(o)
    \/ LibReceive
    \/ \E o \in LibraryOutcomes : LibReturn(o)
    \/ NodeReceive
    \/ \E o \in LibraryOutcomes : NodeReturn(o)
    \/ YtdlpReceive
    \/ \E o \in PrintOutcomes : YtdlpPrintReturn(o)
    \/ \E o \in GetUrlOutcomes : YtdlpUrlReturn(o)
    \/ \E o \in CaptionOutcomes : YtdlpSubtitleReturn(o)

SpecTranscript == TrInit /\ [][TrNext]_vars

(***************************************************************************)
(* The service: one request, to /api/transcript or to /api/summarize.      *)
(***************************************************************************)
ServiceInit == TrInit \/ SumInit

\* the router hands the request to the handler of its path
ServiceNext ==
    \/ impl # Idle /\ TrNext
    \/ impl = Idle /\ SumNext

SpecService == ServiceInit /\ [][ServiceNext]_vars

(***************************************************************************)
(* Concurrent requests.                                                    *)
(*                                                                         *)
(* Node runs one handler step at a time; at an await the handler's local   *)
(* state stays in its closure until the awaited call settles.  The         *)
(* variables of the handler model hold the state of the request that is    *)
(* running (turn); parked holds the state of each other request.  Request  *)
(* 0 is handled alone, from arrival to response; requests 1 and 2 are then *)
(* handled concurrently, their steps interleaved in every order.           *)
(* process.env and the openai client are the only values of the route file *)
(* that outlive a request, and no handler writes them.                     *)
(***************************************************************************)
\* the const and let bindings of a handler invocation, with req and res
HandlerState ==
    [pc |-> pc, body |-> body, chunks |-> chunks, summaries |-> summaries,
     finalSummary |-> finalSummary, calls |-> calls, replies |-> replies,
     res |-> res, impl |-> impl, videoId |-> videoId, track |-> track,
     transcriptData |-> transcriptData]

\* a variant in which the summarize handlers share one summaries array
ResumeSharingSummaries(h) ==
    /\ pc' = h.pc /\ body' = h.body /\ chunks' = h.chunks
    /\ summaries' = IF impl = Idle /\ h.impl = Idle THEN summaries
                     ELSE h.summaries
    /\ finalSummary' = h.finalSummary
    /\ calls' = h.calls /\ replies' = h.replies /\ res' = h.res
    /\ impl' = h.impl /\ videoId' = h.videoId /\ track' = h.track
    /\ transcriptData' = h.transcriptData

\* the continuation of a handler runs on the bindings of its own invocation
Resume(h) ==
    /\ pc' = h.pc /\ body' = h.body /\ chunks' = h.chunks
    /\ summaries' = h.summaries /\ finalSummary' = h.finalSummary
    /\ calls' = h.calls /\ replies' = h.replies /\ res' = h.res
    /\ impl' = h.impl /\ videoId' = h.videoId /\ track' = h.track
    /\ transcriptData' = h.transcriptData

\* a /api/summarize request on arrival
ArrivedSummarize(b) ==
    [pc |-> "request", body |-> b, chunks |-> <<>>, summaries |-> <<>>,
     finalSummary |-> EmptyObj, calls |-> <<>>, replies |-> <<>>,
     res |-> <<>>, impl |-> Idle, videoId |-> Idle, track |-> Idle,
     transcriptData |-> Idle]

\* a /api/transcript request on arrival, served by route file i
ArrivedTranscript(i, b) ==
    [pc |-> "request", body |-> b, chunks |-> Idle, summaries |-> Idle,
     finalSummary |-> Idle, calls |-> <<>>, replies |-> <<>>,
     res |-> <<>>, impl |-> i, videoId |-> "", track |-> NoTrack,
     transcriptData |-> <<>>]

\* the requests sent concurrently: a short transcript to summarize, a long
\* one without any sentence, and a short link to transcribe
ConcurrentRequests ==
    << ArrivedSummarize([transcript |->
                            [isString |-> TRUE,
                             value |-> Repeat("a", 1) \o Repeat(".", 1)],
                        style |-> "detailed"]),
      ArrivedSummarize([transcript |->
                            [isString |-> TRUE,
                             value |-> Repeat(" ", DefaultMaxTokens * 4 + 1)],
                        style |-> "detailed"]),
      ArrivedTranscript("node",
                        [url |-> [isString |-> TRUE,
                                  value |-> [parses |-> TRUE,
                                             hostname |-> "youtu.be",
                                             v |-> <<>>,
                                             pathRest |-> "vid2"]]]) >>

\* process.env with the key set, and with no key
ConcurrentEnvs ==
    { [OPENAI_API_KEY |-> <<"sk-key">>, OPENAI_API_KEY_ENV_VAR |-> Unset],
      [OPENAI_API_KEY |-> Unset, OPENAI_API_KEY_ENV_VAR |-> Unset] }

Running == "running"

\* request 0 has arrived; requests 1 and 2 arrive once it is answered,
\* request 1 being the same request as request 0
ConcInit ==
    \E i \in DOMAIN ConcurrentRequests, j \in DOMAIN ConcurrentRequests :
      LET same == ConcurrentRequests[i]
          other == ConcurrentRequests[j]
      IN
        /\ turn = 0
        /\ parked = [k \in 0 .. 2 |->
                        IF k = 0 THEN Running ELSE IF k = 1 THEN same ELSE other]
        /\ pc = same.pc /\ body = same.body /\ chunks = same.chunks
        /\ summaries = same.summaries /\ finalSummary = same.finalSummary
        /\ calls = same.calls /\ replies = same.replies /\ res = same.res
        /\ impl = same.impl /\ videoId = same.videoId /\ track = same.track
        /\ transcriptData = same.transcriptData
        /\ env \in ConcurrentEnvs
        /\ text = Idle /\ maxTokens = Idle
        /\ seconds = Idle /\ stamp = Idle

\* the event loop runs a step of request k next: the running handler has
\* reached an await or has returned
Switch(k) ==
    /\ k # turn
    /\ turn = 0 => pc = "done"
    /\ parked[k].pc # "done"
    /\ parked' = [parked EXCEPT ![turn] = HandlerState, ![k] = Running]
    /\ turn' = k
    /\ Resume(parked[k])
    /\ UNCHANGED <<text, maxTokens, env, seconds, stamp>>

ConcNext ==
    \/ \E k \in 1 .. 2 : Switch(k)
    \/ impl = Idle /\ SumReceive
    \/ impl = Idle /\ \E o \in LLMOutcomes : SumMapReturn(o)
    \/ impl = Idle /\ \E o \in LLMOutcomes : SumReduceReturn(o)
    \/ impl # Idle /\ NodeReceive
    \/ impl # Idle /\ \E o \in LibraryOutcomes : NodeReturn(o)

SpecConcurrent == ConcInit /\ [][ConcNext]_vars

(***************************************************************************)
(* Properties of chunkText.                                                *)
(***************************************************************************)
Returned == pc = "returned"

\* the call took the splitting path: text.length > maxChars
WasSplit == Returned /\ StrLen(text) > maxTokens * 4

Oversized(chunk) == StrLen(chunk) > maxTokens * 4

SentenceCount(chunk) == Len(Sentences(chunk))

RECURSIVE RebuiltLen(_)
\* the length of the sentences, each with its re-appended ". "
RebuiltLen(ss) ==
    IF ss = <<>> THEN 0 ELSE StrLen(Head(ss)) + 2 + RebuiltLen(Tail(ss))

TrimAll(ss) == [i \in DOMAIN ss |-> Trim(ss[i])]

RECURSIVE SentencesOfChunks(_)
\* the sentences read back from the chunks, chunk by chunk
SentencesOfChunks(cs) ==
    IF cs = <<>> THEN <<>>
    ELSE TrimAll(Sentences(Head(cs))) \o SentencesOfChunks(Tail(cs))

RECURSIVE StripWhitespace(_)
\* the non-whitespace characters of s, in order
StripWhitespace(s) ==
    IF s = <<>> THEN EmptyStr
    ELSE IF IsWhitespace(s[1].c) THEN StripWhitespace(Tail(s))
    ELSE Concat(<<s[1]>>, StripWhitespace(Tail(s)))

RECURSIVE ClosedSentences(_)
\* the non-whitespace characters of the sentences, each closed by one "."
ClosedSentences(ss) ==
    IF ss = <<>> THEN EmptyStr
    ELSE Concat(Concat(StripWhitespace(Head(ss)), Repeat(".", 1)),
                ClosedSentences(Tail(ss)))

HasChar(s, c) == \E i \in DOMAIN s : s[i].c = c

\* C1 (as claimed): chunkText never returns an empty array, whatever the
\* text and maxTokens >= 1.
C1_NeverEmpty == Returned => Len(chunks) >= 1

C3_AtMostOneOversized ==
    WasSplit =>
        /\ Cardinality({i \in DOMAIN chunks : Oversized(chunks[i])}) <= 1
        /\ \A i \in DOMAIN chunks :
              Oversized(chunks[i]) => SentenceCount(chunks[i]) = 1

\* C3 (amended): every chunk longer than maxTokens*4 characters is a single
\* sentence; a result may hold several such chunks, one for each sentence
\* that does not fit the budget.
C3_OversizedIsSingleSentence ==
    WasSplit =>
        \A i \in DOMAIN chunks :
            Oversized(chunks[i]) => SentenceCount(chunks[i]) = 1

\* a result with two oversized chunks, each a single sentence
C3_Witness ==
    /\ WasSplit
    /\ Cardinality({i \in DOMAIN chunks : Oversized(chunks[i])}) >= 2
    /\ \A i \in DOMAIN chunks : SentenceCount(chunks[i]) = 1

\* C4: the sentences read back from the chunks in order are the non-blank
\* sentences of the split text in order (surrounding whitespace aside): none
\* dropped, duplicated or cut, oversized sentences included.
C4_SentencesPreserved ==
    WasSplit => SentencesOfChunks(chunks) = TrimAll(Sentences(text))

\* a split into an oversized single sentence and a chunk of two sentences
C4_Witness ==
    /\ WasSplit
    /\ Len(chunks) >= 2
    /\ \E i \in DOMAIN chunks : Oversized(chunks[i])
    /\ \E i \in DOMAIN chunks : SentenceCount(chunks[i]) = 2

\* C5 (as claimed): the concatenated chunks hold exactly the non-whitespace
\* characters of the input, terminators included, in input order.
C5_CoversEveryCharacter ==
    Returned => StripWhitespace(ConcatAll(chunks)) = StripWhitespace(text)

\* C5 (amended): the concatenated chunks of a split text hold, in input
\* order, the non-whitespace characters of its non-blank sentences, each
\* sentence closed by a single "." whatever terminators (or none) followed
\* it in the input; a text that is not split is returned as it is.
C5_CoversSentenceCharacters ==
    Returned =>
        StripWhitespace(ConcatAll(chunks)) =
            IF StrLen(text) > maxTokens * 4
            THEN ClosedSentences(Sentences(text))
            ELSE StripWhitespace(text)

\* a split text with a question mark and with several terminators in a row
C5_Witness ==
    /\ WasSplit
    /\ Len(chunks) >= 2
    /\ HasChar(text, "?")
    /\ \E i \in DOMAIN text : text[i].c = "." /\ text[i].n >= 2

(***************************************************************************)
(* Properties of POST /api/summarize.                                      *)
(***************************************************************************)
\* the call settled without a usable summary: it threw, or its content is
\* text that does not parse
Failed(o) == o.kind = "throws" \/ (o.kind = "text" /\ ~o.content.valid)

\* the summary object a settled call delivered
Delivered(o) == IF o.kind = "text" THEN o.content.value ELSE EmptyObj

\* the response r carries the tldr and bulletPoints of summary object p
Carries(r, p) ==
    /\ r.status = 200
    /\ r.tldr = (IF "tldr" \in DOMAIN p THEN p.tldr ELSE "")
    /\ r.bulletPoints = (IF "bulletPoints" \in DOMAIN p THEN p.bulletPoints ELSE <<>>)

Chunked == pc \in {"awaitMap", "awaitReduce", "done"} /\ calls # <<>>

\* C6: with exactly one chunk the request makes one LLM call in all, a map
\* call, never a reduce call, and a 200 response carries the summary that
\* call delivered.
C6_SingleChunkNoReduce ==
    (Chunked /\ Len(chunks) = 1) =>
        /\ Len(calls) = 1
        /\ calls[1].kind = "map"
        /\ (pc = "done" /\ res[1].status = 200) =>
              /\ finalSummary = Delivered(replies[1])
              /\ Carries(res[1], Delivered(replies[1]))

\* one oversized chunk summarized and answered
C6_Witness ==
    /\ pc = "done"
    /\ Len(chunks) = 1
    /\ StrLen(chunks[1]) > DefaultMaxTokens * 4
    /\ res[1].status = 200
    /\ res[1].tldr = "Beta."

\* C7: when several chunks were summarized and the reduce call throws or
\* returns unparseable output, the one response is a 200 carrying the
\* summary of the first chunk.
C7_ReduceFailureFallsBack ==
    (/\ pc = "done"
     /\ Len(summaries) > 1
     /\ calls[Len(calls)].kind = "reduce"
     /\ Failed(replies[Len(replies)])) =>
        /\ Len(res) = 1
        /\ finalSummary = Delivered(replies[1])
        /\ Carries(res[1], Delivered(replies[1]))

\* a failed reduce call after two chunks whose summaries differ
C7_Witness ==
    /\ pc = "done"
    /\ Len(summaries) = 2
    /\ calls[Len(calls)].kind = "reduce"
    /\ replies[Len(replies)].kind = "throws"
    /\ Delivered(replies[1]) # Delivered(replies[2])
    /\ res[1].status = 200

\* C8: once the map call of a chunk has thrown or returned unparseable
\* output, that call is the last call of the request (no retry, no later
\* map call, no reduce call) and the one response is a 500 error message,
\* without any summary.
C8_MapFailureAborts ==
    \A i \in DOMAIN replies :
        (calls[i].kind = "map" /\ Failed(replies[i])) =>
            /\ pc = "done"
            /\ Len(calls) = i
            /\ Len(res) = 1
            /\ res[1].status = 500
            /\ DOMAIN res[1] = {"status", "message"}

\* the second of two map calls returned unparseable output
C8_Witness ==
    /\ Len(chunks) = 2
    /\ Len(replies) = 2
    /\ calls[2].kind = "map"
    /\ replies[2].kind = "text"
    /\ ~replies[2].content.valid
    /\ res # <<>>

\* the body passes the request schema
BodyAccepted ==
    /\ body.transcript.isString
    /\ body.transcript.value # EmptyStr
    /\ body.style \in {"absent", "detailed", "concise"}

\* one of the two environment variables holds a non-empty key
Configured ==
    \E k \in DOMAIN env : env[k] # <<>> /\ env[k] # <<"">>

\* C9: an LLM call is issued only for a request whose body validated and
\* with a credential configured; an empty-string transcript is answered
\* 400 and a valid request without credential 500, both without any call.
C9_NoCallUnlessValidAndConfigured ==
    /\ calls # <<>> => (BodyAccepted /\ Configured)
    /\ (pc = "done" /\ body.transcript.isString
            /\ body.transcript.value = EmptyStr) =>
          (calls = <<>> /\ Len(res) = 1 /\ res[1].status = 400)
    /\ (pc = "done" /\ BodyAccepted /\ ~Configured) =>
          (calls = <<>> /\ Len(res) = 1 /\ res[1].status = 500)

\* a valid request answered 500 with one variable unset and the other empty
C9_Witness ==
    /\ pc = "done"
    /\ BodyAccepted
    /\ env.OPENAI_API_KEY = <<"">>
    /\ env.OPENAI_API_KEY_ENV_VAR = <<>>
    /\ calls = <<>>
    /\ res[1].status = 500

(***************************************************************************)
(* Properties of POST /api/transcript.                                     *)
(***************************************************************************)
\* the request passed the schema and gave a video id
TranscriptAccepted ==
    TranscriptBodyValid(body) /\ ~ExtractVideoId(body.url.value).threw

Range(f) == {f[i] : i \in DOMAIN f}

\* the segments that call i gave: the list a library call returned, or the
\* segments parsed from the content of a caption download
SegmentsOfReply(i) ==
    IF replies[i].kind # "ok" THEN {}
    ELSE IF calls[i].kind = "library" THEN Range(LibMap(replies[i].content))
    ELSE IF calls[i].kind = "captions"
    THEN IF impl = "ytdlp"
         THEN Range(parseVTTFromContent(replies[i].content))
         ELSE Range(ParseCaptions(calls[i].url, replies[i].content))
    ELSE {}

\* the segments that the caption sources returned for the requested video
SourceSegments == UNION {SegmentsOfReply(i) : i \in DOMAIN replies}

\* every source that was asked answered, and none gave a segment
NothingAcquired ==
    /\ pc = "done"
    /\ TranscriptAccepted
    /\ \A i \in DOMAIN replies : replies[i].kind = "ok"
    /\ SourceSegments = {}

\* C10: /transcript never returns synthetic content: every item of a 200
\* response is derived from a segment that a caption source returned for the
\* requested video, and when the sources answered without giving any caption
\* track or segment the response is the not-found one (404).
C10_NoSyntheticContent ==
    (pc = "done" /\ res # <<>>) =>
        LET response == res[Len(res)]
        IN  /\ response.status = 200 =>
                \A k \in DOMAIN response.items :
                    \E seg \in SourceSegments : response.items[k] = ItemOf(seg)
            /\ NothingAcquired => response.status = 404

\* the answer of the handler
LastResponse == res[Len(res)]

\* the handler asked its caption sources and finished
AcquisitionEnded ==
    pc = "done" /\ TranscriptAccepted /\ calls # <<>> /\ res # <<>>

\* C11: a /transcript request whose URL yields a video identifier, and for
\* which every caption-retrieval attempt fails or returns an empty segment
\* list, is answered with status 404.
C11_ExhaustedIs404 ==
    (AcquisitionEnded /\ SourceSegments = {}) => LastResponse.status = 404

\* every attempt failed and the failure said the video is private,
\* unavailable or age-restricted
ReportedRestricted ==
    /\ replies # <<>>
    /\ \A i \in DOMAIN replies :
          /\ replies[i].kind = "throws"
          /\ replies[i].says \in {"private", "age-restricted"}

\* C12: when caption acquisition fails because the video is private,
\* unavailable or age-restricted, as the underlying failure reports, the
\* response status is 403.
C12_RestrictedIs403 ==
    (AcquisitionEnded /\ ReportedRestricted) => LastResponse.status = 403

\* the watch-page domain and the short-link domain
IsWatchHost(h) == h \in {"www.youtube.com"}
IsShortHost(h) == h \in {"youtu.be"}

\* the request carries a URL text that parses
UrlGiven == body.url.isString /\ body.url.value.parses

\* the handler has gone through identifier extraction
ExtractionDone == pc # "request"

\* identifier extraction failed: the handler answered 400
ExtractionFailed == res # <<>> /\ res[1].status = 400

\* identifier extraction returned id
ExtractionReturned(id) ==
    ExtractionDone /\ ~ExtractionFailed /\ videoId = id

\* C13: identifier extraction returns exactly the value of the v query
\* parameter for every watch-page URL that has one, and the path after the
\* leading slash for every short-link URL.
C13_ExtractsIdentifier ==
    (ExtractionDone /\ UrlGiven) =>
        LET u == body.url.value
        IN  /\ (IsWatchHost(u.hostname) /\ u.v # <<>>) =>
                   ExtractionReturned(u.v[1])
            /\ IsShortHost(u.hostname) => ExtractionReturned(u.pathRest)

\* C13, amended: identifier extraction returns exactly the value of the v
\* query parameter for every watch-page URL whose v is not empty, and the
\* path after the leading slash for every short-link URL whose path is not
\* empty; with an empty v or an empty path extraction fails.
C13_ExtractsNonEmptyIdentifier ==
    (ExtractionDone /\ UrlGiven) =>
        LET u == body.url.value
        IN  /\ (IsWatchHost(u.hostname) /\ u.v # <<>>) =>
                   IF u.v[1] # "" THEN ExtractionReturned(u.v[1])
                   ELSE ExtractionFailed
            /\ IsShortHost(u.hostname) =>
                   IF u.pathRest # "" THEN ExtractionReturned(u.pathRest)
                   ELSE ExtractionFailed

\* a watch-page URL with v=vid1 gave the identifier vid1
C13_Witness ==
    /\ UrlGiven
    /\ IsWatchHost(body.url.value.hostname)
    /\ body.url.value.v = <<"vid1">>
    /\ ExtractionReturned("vid1")

\* the URL yields no identifier: no v, or an empty one, on the watch-page
\* domain, or an empty path on the short-link domain
EmptyIdentifier(u) ==
    \/ IsWatchHost(u.hostname) /\ (u.v = <<>> \/ u.v[1] = "")
    \/ IsShortHost(u.hostname) /\ u.pathRest = ""

\* C14: for every URL that does not parse, whose host is neither the
\* watch-page domain nor the short-link domain, or that yields an empty
\* identifier, identifier extraction fails and /transcript answers 400
\* without attempting any caption acquisition.
C14_BadUrlIs400 ==
    (ExtractionDone /\ body.url.isString) =>
        LET u == body.url.value
        IN  (\/ ~u.parses
             \/ ~(IsWatchHost(u.hostname) \/ IsShortHost(u.hostname))
             \/ EmptyIdentifier(u)) =>
                (ExtractionFailed /\ calls = <<>>)

\* the handler answered 200
Answered200 == pc = "done" /\ res # <<>> /\ LastResponse.status = 200

\* C15: every item of a 200 /transcript response has text that is trimmed
\* and non-empty, for every segment list an acquisition source can return.
C15_ItemTextNonEmpty ==
    Answered200 =>
        \A k \in DOMAIN LastResponse.items :
            /\ LastResponse.items[k].text = Trim(LastResponse.items[k].text)
            /\ LastResponse.items[k].text # EmptyStr

\* C16: every raw caption segment produced by the WebVTT parser and by the
\* timed-text XML parser has duration >= 0, for every input document.
C16_DurationNonNegative ==
    \A i \in DOMAIN replies :
        calls[i].kind = "captions" =>
            \A seg \in SegmentsOfReply(i) :
                ~seg.duration.nan /\ seg.duration.k >= 0

\* t is the least integer with 4 * t >= n, that is ceil(n / 4)
IsCeilOfQuarter(t, n) == 4 * t >= n /\ 4 * (t - 1) < n

\* the answer is a 200 /summarize response, a 200 /transcript response
SummaryAnswered == Answered200 /\ impl = Idle
TranscriptAnswered == Answered200 /\ impl # Idle

\* C17: for every transcript response and every summary response,
\* tokenCount equals ceil(n/4), where n is the length of the response's
\* transcript string (equal to characterCount), respectively of its rendered
\* summary string; tokenCount is 0 only when that string is empty.
C17_TokenCountIsCeil ==
    /\ TranscriptAnswered =>
           LET n == StrLen(LastResponse.transcript)
           IN  /\ LastResponse.characterCount = n
               /\ IsCeilOfQuarter(LastResponse.tokenCount, n)
               /\ LastResponse.tokenCount = 0 => n = 0
    /\ SummaryAnswered =>
           LET n == Len(LastResponse.summary)
           IN  /\ IsCeilOfQuarter(LastResponse.tokenCount, n)
               /\ LastResponse.tokenCount = 0 => n = 0

\* a transcript fetched from a caption source is answered with a length that
\* is no multiple of 4
C17_Witness ==
    /\ TranscriptAnswered
    /\ calls # <<>>
    /\ LastResponse.characterCount % 4 # 0
    /\ LastResponse.tokenCount > 0

(***************************************************************************)
(* Properties of formatTimestamp.                                          *)
(***************************************************************************)
\* the decimal digits, written out
DigitOf(d) == <<"0", "1", "2", "3", "4", "5", "6", "7", "8", "9">>[d + 1]

RECURSIVE DecimalOf(_)
\* the decimal numeral of a natural number
DecimalOf(n) ==
    IF n < 10 THEN DigitOf(n) ELSE DecimalOf(n \div 10) \o DigitOf(n % 10)

\* the numeral of n zero-padded to width 2
ZeroPadded2(n) == IF n < 10 THEN "0" \o DigitOf(n) ELSE DecimalOf(n)

\* floor(s / 60) and floor(s mod 60) of a number of thousandths k >= 0
WholeMinutes(k) == k \div 60000
WholeSeconds(k) == (k % 60000) \div 1000

\* C18: for every non-negative number of seconds s, taken at millisecond
\* granularity, formatTimestamp(s) is floor(s/60) and floor(s mod 60), each
\* zero-padded to width 2 and joined by ":", with flooring only and no hour
\* rollover: 3600 s gives "60:00" and 59.999 s gives "00:59".
C18_FormatIsFlooredMinutesSeconds ==
    pc = "done" =>
        /\ stamp = ZeroPadded2(WholeMinutes(seconds.k))
                      \o ":" \o ZeroPadded2(WholeSeconds(seconds.k))
        /\ seconds = Num(3600000) => stamp = "60:00"
        /\ seconds = Num(59999) => stamp = "00:59"
        /\ seconds = Num(125700) => stamp = "02:05"

\* formatTimestamp(3600) has returned "60:00"
C18_Witness == pc = "done" /\ seconds = Num(3600000) /\ stamp = "60:00"

\* the strings of the form MM:SS: a minutes numeral zero-padded to two
\* digits, not wrapped at 60, and a two-digit seconds field in 00..59
IsMinutesSecondsStamp(s) ==
    \E m \in 0 .. MaxMinutes, sec \in 0 .. 59 :
        s = ZeroPadded2(m) \o ":" \o ZeroPadded2(sec)

\* C19: the timestamp of every transcript item is of the form MM:SS, with a
\* zero-padded two-digit minutes field and a two-digit seconds field in
\* 00..59, for every segment offset an acquisition source or parser can
\* supply; minutes are never wrapped at 60.
C19_TimestampIsMinutesSeconds ==
    Answered200 =>
        \A k \in DOMAIN LastResponse.items :
            IsMinutesSecondsStamp(LastResponse.items[k].timestamp)

(***************************************************************************)
(* Properties of the /api/summarize response.                              *)
(***************************************************************************)
\* C20: in every 200 /summarize response, the summary string equals the
\* fixed rendering of that same response's tldr and bulletPoints fields:
\* "TL;DR: " + tldr + "\n\nKey Points:\n" followed by one bullet line per
\* point joined by newlines, including when the LLM output lacks a tldr or
\* bulletPoints field.
C20_SummaryIsRendering ==
    Answered200 =>
        LastResponse.summary =
            "TL;DR: " \o LastResponse.tldr \o "\n\nKey Points:\n"
                \o JoinBullets(LastResponse.bulletPoints)

(***************************************************************************)
(* Properties of the service: both endpoints.                              *)
(***************************************************************************)
\* the constant error bodies of the route files, each with its status
FixedErrorResponses ==
    { ErrorResponse(400, MsgInvalidSummarize),
      ErrorResponse(400, MsgInvalidTranscript),
      ErrorResponse(400, MsgInvalidUrl),
      ErrorResponse(403, MsgAgeRestricted),
      ErrorResponse(403, MsgPrivate),
      ErrorResponse(404, MsgNoCaptions),
      ErrorResponse(404, MsgNoSegments),
      ErrorResponse(404, MsgNoTrack),
      ErrorResponse(404, MsgNoTranscript),
      ErrorResponse(404, MsgNodeDisabled),
      ErrorResponse(404, MsgNodeNotAvailable),
      ErrorResponse(404, MsgPageNotOk),
      ErrorResponse(429, MsgNodeTooMany),
      ErrorResponse(500, MsgAIUnavailable),
      ErrorResponse(500, MsgCaptionsNotOk),
      ErrorResponse(500, MsgNoExtract),
      ErrorResponse(500, MsgNoKey),
      ErrorResponse(500, MsgNodeNoExtract),
      ErrorResponse(500, MsgUnexpectedSummary),
      ErrorResponse(500, MsgUnexpectedTranscript),
      ErrorResponse(502, MsgDownloadFailed) }

\* every error response sent is one of the constant bodies
ErrorBodiesAreConstant ==
    \A i \in DOMAIN res :
        res[i].status # 200 => res[i] \in FixedErrorResponses

\* the awaited call settles with outcome o
ReturnStep(o) ==
    IF impl = Idle
    THEN SumMapReturn(o) \/ SumReduceReturn(o)
    ELSE IF pc = "awaitLibrary"
    THEN LibReturn(o) \/ NodeReturn(o)
    ELSE \/ ScrapePageReturn(o) \/ ScrapeCaptionReturn(o)
         \/ YtdlpPrintReturn(o) \/ YtdlpUrlReturn(o) \/ YtdlpSubtitleReturn(o)

\* pairs of thrown errors that differ in the text of the error only, for
\* the call awaited in this state
TextVariants ==
    IF impl = Idle
    THEN {<<[kind |-> "throws", mentionsOpenAI |-> a, content |-> Unparseable],
            [kind |-> "throws", mentionsOpenAI |-> b, content |-> Unparseable]>> :
              a \in BOOLEAN, b \in BOOLEAN}
    ELSE IF pc = "awaitLibrary"
    THEN {<<ThrownNamed("Error", a), ThrownNamed("Error", b)>> :
              a \in ErrorSayings, b \in ErrorSayings}
    ELSE {<<Thrown(a), Thrown(b)>> : a \in ErrorSayings, b \in ErrorSayings}

\* whatever error body one text leads to, the other text leads to it too
SameBodyForAnyText ==
    (pc \notin {"request", "done"}) =>
        \A pair \in TextVariants : \A r \in FixedErrorResponses :
            ENABLED (ReturnStep(pair[1]) /\ res' = Append(res, r))
                => ENABLED (ReturnStep(pair[2]) /\ res' = Append(res, r))

\* C21: every error response of /transcript and /summarize carries a
\* message drawn from a fixed set of constant strings, and the response body
\* is independent of the text of the caught error and of the configured
\* credential: two runs differing only in those yield the same response.
C21_ErrorBodyIndependentOfErrorText ==
    ErrorBodiesAreConstant /\ SameBodyForAnyText

\* C21, amended: every error response of /transcript and /summarize is one
\* of a fixed set of constant bodies (a status with a constant
\* human-readable message); the text of the caught error only selects among
\* them, through whether it mentions a private or unavailable video, an age
\* restriction or OpenAI, and the credential only through whether one is
\* configured.  No error text and no credential value appears in a body.
C21_ErrorBodiesAreConstant ==
    /\ ErrorBodiesAreConstant
    /\ \A i \in DOMAIN res : DOMAIN res[i] = {"status", "message"}
                                 \/ res[i].status = 200

\* an error was caught and the handler answered with an error body
C21_Witness ==
    /\ pc = "done"
    /\ replies # <<>>
    /\ replies[Len(replies)].kind = "throws"
    /\ res # <<>>
    /\ LastResponse.status = 403

(***************************************************************************)
(* Properties of concurrent requests.                                      *)
(***************************************************************************)
\* the handler state of request k
StateOf(k) == IF turn = k THEN HandlerState ELSE parked[k]

\* requests a and b are the same request
SameRequest(a, b) == a.impl = b.impl /\ a.body = b.body

\* the external calls of a and of b gave the same results, call by call
SameResults(a, b) ==
    \A i \in DOMAIN a.replies \cap DOMAIN b.replies :
        a.replies[i] = b.replies[i]

\* C22: requests share no mutable state: when two requests are handled
\* concurrently, with the completions of their external calls interleaved in
\* any order, each response equals the response that the same request gets
\* when it is handled alone with the same external-call results.
C22_ConcurrentEqualsAlone ==
    \A k \in 1 .. 2 :
        LET mine == StateOf(k)
            alone == StateOf(0)
        IN  (/\ mine.pc = "done" /\ alone.pc = "done"
             /\ SameRequest(mine, alone)
             /\ SameResults(mine, alone)) =>
                /\ mine.calls = alone.calls
                /\ mine.res = alone.res

\* request 1 was answered 200 while request 2 was awaiting a call, with the
\* results that request 0 got alone
C22_Witness ==
    /\ turn # 0
    /\ StateOf(1).pc = "done"
    /\ StateOf(2).pc \in {"awaitMap", "awaitReduce", "awaitLibrary"}
    /\ StateOf(1).replies # <<>>
    /\ StateOf(1).replies = StateOf(0).replies
    /\ StateOf(1).res = StateOf(0).res
    /\ StateOf(1).res[1].status = 200

\* the positions of calls at which the reduce call stands
ReduceCalls == {i \in DOMAIN calls : calls[i].kind = "reduce"}

\* C23: in a /summarize request the reduce LLM call is issued at most once,
\* and only in a state where the map call of every chunk has completed
\* successfully and more than one partial summary exists; with any other
\* number of partial summaries no reduce call is made.
C23_ReduceOnlyAfterAllMaps ==
    /\ Cardinality(ReduceCalls) <= 1
    /\ \A i \in ReduceCalls :
          /\ Len(summaries) > 1
          /\ Len(summaries) = Len(chunks)
          /\ i = Len(chunks) + 1
          /\ \A j \in 1 .. i - 1 :
                calls[j].kind = "map" /\ ~MapCallFailed(replies[j])

(***************************************************************************)
(* Properties of the acquisition strategies.                               *)
(***************************************************************************)
\* the fetch of position i returned a non-empty segment list
FetchSucceeded(i) ==
    replies[i].kind = "ok" /\ Len(replies[i].content) > 0

\* the positions of calls at which the fetch without language stands
UnconstrainedFetches == {i \in DOMAIN calls : calls[i].lang = <<>>}

\* C24: in the library-mediated strategy, language-constrained fetches are
\* attempted in the fixed order en, en-US, en-GB; the first attempt that
\* returns a non-empty segment list is accepted and no further fetch is made
\* after it; the unconstrained fetch is made at most once, and exactly when
\* every language-constrained attempt threw or returned an empty list.
C24_LanguageOrderThenUnconstrained ==
    impl = "library" =>
        /\ Len(calls) <= 4
        /\ Len(calls) >= 1 => calls[1].lang = <<"en">>
        /\ Len(calls) >= 2 => calls[2].lang = <<"en-US">>
        /\ Len(calls) >= 3 => calls[3].lang = <<"en-GB">>
        /\ \A i \in DOMAIN calls : calls[i].kind = "library" /\ calls[i].url = videoId
        /\ \A i \in DOMAIN replies :
              IF FetchSucceeded(i)
              THEN /\ Len(calls) = i
                   /\ pc = "done"
                   /\ LastResponse = TranscriptResponse(LibMap(replies[i].content))
              ELSE i < 4 => Len(calls) > i
        /\ Cardinality(UnconstrainedFetches) <= 1
        /\ UnconstrainedFetches # {} <=>
              (Len(replies) >= 3 /\ \A i \in 1 .. 3 : ~FetchSucceeded(i))

\* the three language-constrained fetches gave nothing and the fetch
\* without language gave the transcript that was answered
C24_Witness ==
    /\ impl = "library" /\ pc = "done"
    /\ Len(calls) = 4 /\ Len(replies) = 4
    /\ replies[1].kind = "ok" /\ replies[2].kind = "throws"
    /\ FetchSucceeded(4)
    /\ LastResponse.status = 200


(***************************************************************************)
(* Properties of the acquisition chains: exceptions.                       *)
(***************************************************************************)
\* the exceptions the attempt awaited in this state can raise
ThrownHere ==
    IF pc = "awaitLibrary" THEN LibraryErrors
    ELSE {Thrown(m) : m \in ErrorSayings}

\* the ways the attempt awaited in this state can end without an exception
\* and without a transcript
FruitlessHere ==
    IF pc = "awaitLibrary" THEN {Ok(<<>>)}
    ELSE IF pc \in {"awaitPage", "awaitCaptions", "awaitSubtitle"} THEN {NotOk}
    ELSE IF pc = "awaitPrint" THEN {Ok(""), Ok("NA")}
    ELSE {}

\* when the awaited attempt ends with o the handler makes a further attempt
MakesNextAttempt(o) ==
    ENABLED (ReturnStep(o) /\ Len(calls') = Len(calls) + 1)

\* C25: an exception raised by one acquisition attempt does not abort the
\* chain.  Wherever an attempt that ends without a transcript is followed by
\* a further attempt, the same attempt ending with an exception is followed
\* by it too; every exception of the language chain but the last has been
\* followed by the next attempt; and the chain answers with an error only
\* after its last attempt has been made
C25_ExceptionDoesNotAbortChain ==
    /\ pc \in {"awaitLibrary", "awaitPage", "awaitCaptions", "awaitPrint",
               "awaitGetUrl", "awaitSubtitle"}
         => \A t \in ThrownHere : \A u \in FruitlessHere :
                MakesNextAttempt(u) => MakesNextAttempt(t)
    /\ impl = "library"
         => /\ \A i \in DOMAIN replies :
                 (replies[i].kind = "throws" /\ i <= Len(LanguageOptions))
                     => Len(calls) > i
            /\ (pc = "done" /\ calls # <<>> /\ LastResponse.status # 200)
                 => Len(replies) = Len(LanguageOptions) + 1

C25_Witness ==
    /\ impl = "library" /\ pc = "done"
    /\ Len(replies) = Len(LanguageOptions) + 1
    /\ \A i \in 1..Len(LanguageOptions) : replies[i].kind = "throws"
    /\ replies[Len(replies)].kind = "ok"
    /\ LastResponse.status = 200


(***************************************************************************)
(* Properties of the caption parsers.                                      *)
(***************************************************************************)
\* the handler finished after a WebVTT parser read the document of its last
\* download
VttParsed ==
    /\ pc = "done" /\ replies # <<>>
    /\ calls[Len(replies)].kind = "captions"
    /\ replies[Len(replies)].kind = "ok"
    /\ replies[Len(replies)].content.fmt = "vtt"
    /\ \/ impl = "ytdlp" /\ ~ContentIsBlank(replies[Len(replies)].content)
       \/ impl = "scrape" /\ BaseUrlIncludesFmtVtt(calls[Len(replies)].url)

\* the lines of the document that the parser read
ParsedLines == replies[Len(replies)].content.lines

\* the timestamp-range lines of the document
CueStarts(lines) == {i \in DOMAIN lines : lines[i].timing}

\* the lines after timestamp-range line i and before the next one or the end
CueLines(lines, i) ==
    {j \in DOMAIN lines : j > i /\ \A m \in (i + 1) .. j : ~lines[m].timing}

\* a line that is not a timestamp-range line and is not empty
IsCaptionTextLine(l) == ~l.timing /\ Trim(l.raw) # EmptyStr

\* the timestamp-range lines followed by at least one caption-text line
CuesWithText(lines) ==
    {i \in CueStarts(lines) :
        \E j \in CueLines(lines, i) : IsCaptionTextLine(lines[j])}

\* the k-th least element of a set of integers
NthOf(S, k) == CHOOSE i \in S : Cardinality({j \in S : j <= i}) = k

\* HH:MM:SS.mmm in milliseconds
MillisOf(timestamp) ==
    (timestamp.h * 3600 + timestamp.m * 60 + timestamp.s) * 1000 + timestamp.f

\* C26: the WebVTT parser returns exactly one segment per timestamp-range
\* line that is followed, before the next timestamp-range line or the end of
\* input, by at least one caption-text line; the segments are in input order,
\* each with offset = start time in ms and duration = (end - start) in ms.
C26_OneSegmentPerCueWithText ==
    VttParsed =>
        LET lines == ParsedLines
            cues == CuesWithText(lines)
        IN  /\ Len(transcriptData) = Cardinality(cues)
            /\ \A k \in 1 .. Cardinality(cues) :
                  LET i == NthOf(cues, k)
                  IN  /\ transcriptData[k].offset
                            = Whole(MillisOf(lines[i].start))
                      /\ transcriptData[k].duration
                            = Whole(MillisOf(lines[i].end)
                                    - MillisOf(lines[i].start))

\* the caption-text lines of the cue opened at line i, in order, each after
\* tag stripping, unescaping and trimming
RECURSIVE CueTextFrom(_, _)
CueTextFrom(lines, j) ==
    IF j > Len(lines) \/ lines[j].timing THEN <<>>
    ELSE IF IsCaptionTextLine(lines[j])
    THEN <<Trim(CleanVttText(Trim(lines[j].raw)))>> \o CueTextFrom(lines, j + 1)
    ELSE CueTextFrom(lines, j + 1)

\* C27: in the WebVTT parser, any non-timestamp, non-empty line read while a
\* segment is open is treated as caption text: after stripping tags and
\* unescaping entities it is appended to the open segment's text, separated
\* by a single space when the segment already has text; so each cue that has
\* such lines gives a segment whose text is these lines joined by spaces.
C27_OpenSegmentCollectsEveryLine ==
    VttParsed =>
        \A i \in CuesWithText(ParsedLines) :
            \E k \in DOMAIN transcriptData :
                /\ transcriptData[k].offset
                      = Whole(MillisOf(ParsedLines[i].start))
                /\ transcriptData[k].text
                      = JoinWithSpace(CueTextFrom(ParsedLines, i + 1))


\* the handler finished after the XML parser read the document of its last
\* download
XmlParsed ==
    /\ pc = "done" /\ replies # <<>> /\ impl = "scrape"
    /\ calls[Len(replies)].kind = "captions"
    /\ replies[Len(replies)].kind = "ok"
    /\ replies[Len(replies)].content.fmt = "xml"
    /\ ~BaseUrlIncludesFmtVtt(calls[Len(replies)].url)

\* the matched elements whose text is not empty after unescaping and trimming
ElementsWithText(elements) ==
    {i \in DOMAIN elements : CleanXmlText(elements[i].content) # EmptyStr}

\* C28: the timed-text XML parser returns, in document order, one segment per
\* matched element whose text is non-empty after entity unescaping and
\* trimming, with offset = start*1000 and duration = dur*1000; the other
\* elements are skipped, so every returned segment has non-empty text.
C28_OneSegmentPerElementWithText ==
    XmlParsed =>
        LET elements == ParsedLines
            kept == ElementsWithText(elements)
        IN  /\ Len(transcriptData) = Cardinality(kept)
            /\ \A k \in DOMAIN transcriptData :
                  LET match == elements[NthOf(kept, k)]
                      seg == transcriptData[k]
                  IN  /\ seg.text = CleanXmlText(match.content)
                      /\ seg.text # EmptyStr /\ seg.text = Trim(seg.text)
                      /\ seg.offset = Times1000(match.start)
                      /\ seg.duration = Times1000(match.dur)

C28_Witness ==
    /\ XmlParsed
    /\ Len(ParsedLines) = 2
    /\ ElementsWithText(ParsedLines) = {2}
    /\ Len(transcriptData) = 1
    /\ LastResponse.status = 200


(***************************************************************************)
(* Properties of chunkText: short texts.                                   *)
(***************************************************************************)
\* the text has at most maxTokens * 4 characters
FitsOneChunk == StrLen(text) <= maxTokens * 4

\* C29: chunkText applied to a text of at most maxTokens*4 characters
\* returns a single-element array whose only element is the input text,
\* unchanged (not trimmed, terminators kept).
C29_ShortTextReturnedUnchanged ==
    (pc = "returned" /\ FitsOneChunk) => chunks = <<text>>

C29_Witness ==
    /\ pc = "returned" /\ FitsOneChunk
    /\ text # Trim(text)
    /\ \E i \in DOMAIN text : IsTerminator(text[i].c)
    /\ chunks = <<text>>


(***************************************************************************)
(* Properties of the service: responses.                                   *)
(***************************************************************************)
\* C30: every /transcript and /summarize request sends exactly one HTTP
\* response on every execution path: a handler that has not finished has
\* sent nothing, a handler that awaits a call has a step to take when the
\* call settles, a handler that has finished has sent one response, and no
\* response follows a response.
C30_ExactlyOneResponse ==
    /\ Len(res) <= 1
    /\ pc = "done" <=> Len(res) = 1
    /\ pc \notin {"request", "done"} => ENABLED ServiceNext

\* the reduce call failed and the summarize handler answered once, from the
\* first partial summary
C30_Witness ==
    /\ impl = Idle /\ pc = "done"
    /\ calls # <<>> /\ calls[Len(calls)].kind = "reduce"
    /\ replies[Len(replies)].kind = "throws"
    /\ Len(res) = 1 /\ LastResponse.status = 200

=============================================================================
